---------------------------- MODULE Spec2Model ----------------------------
(***************************************************************************)
(* A model of base16.sh (src/src/main.rs): the scheme catalog              *)
(* (SchemeIndex), the template catalog (TemplateIndex), name resolution    *)
(* (find_exact, find_fuzzy, the redirect policy of the request handlers),  *)
(* the perceptual ordering (compute_color_order) and the per-colour        *)
(* template variables of handle_scheme_template.                           *)
(*                                                                         *)
(* Text.  A Rust char is modelled by a one-character TLA+ string for an    *)
(* ASCII character and by the string "U+XXXX" for a character outside      *)
(* ASCII; a Rust String / &str is the sequence of its chars.               *)
(***************************************************************************)
EXTENDS Integers, Sequences, FiniteSets, TLC

VARIABLES
    pc,            \* position of the modelled run
    call,          \* pure-function runs: the function applied and its argument
    result,        \* pure-function runs: the value returned
    fs,            \* the directory tree under data/ that the catalogs are built from
    schemes,       \* SCHEME_INDEX.schemes      (HashMap<String, SchemeInfo>)
    names_sorted,  \* SCHEME_INDEX.names_sorted (Vec<String>)
    color_sorted,  \* SCHEME_INDEX.color_sorted (Vec<String>)
    templates,     \* TEMPLATE_INDEX.templates  (HashMap<String, TemplateInfo>)
    request,       \* the request being answered
    response       \* the handler's answer to it

vars == <<pc, call, result, fs, schemes, names_sorted, color_sorted,
          templates, request, response>>

None == [none |-> TRUE]                  \* Option::None
Some(x) == [some |-> x]                  \* Option::Some(x)
IsSome(o) == "some" \in DOMAIN o

\* The function f itself, held as the table of its values
Tabulated(f) == f @@ <<>>

\* body(v) for the value v of e: a let that computes e once
With(e, body(_)) == CHOOSE r \in {body(v) : v \in {e}} : TRUE

(***************************************************************************)
(* Characters                                                              *)
(***************************************************************************)
LowerLetters == <<"a","b","c","d","e","f","g","h","i","j","k","l","m",
                  "n","o","p","q","r","s","t","u","v","w","x","y","z">>
UpperLetters == <<"A","B","C","D","E","F","G","H","I","J","K","L","M",
                  "N","O","P","Q","R","S","T","U","V","W","X","Y","Z">>
DecDigits == <<"0","1","2","3","4","5","6","7","8","9">>

Range(s) == {s[i] : i \in DOMAIN s}
IndexOf(c, s) == CHOOSE i \in DOMAIN s : s[i] = c

\* ASCII punctuation the model uses, and three characters outside ASCII:
\* U+00E9 (e acute), U+0130 (capital I with dot above, whose lowercase is the
\* two chars "i" U+0307) and U+0307 (combining dot above).
Punctuation == {"-", "_", ".", "/", " ", "#", "+", "!", "<", ">"}
NonAscii == {"U+00E9", "U+0130", "U+0307"}
Chars == Range(LowerLetters) \cup Range(UpperLetters) \cup Range(DecDigits)
           \cup Punctuation \cup NonAscii

\* char::is_ascii_alphanumeric
is_ascii_alphanumeric ==
    [c \in Chars |-> c \in Range(LowerLetters) \cup Range(UpperLetters)
                            \cup Range(DecDigits)]

\* The Unicode scalar value of a char (the order of String's Ord).
CodePoint ==
    [c \in Chars |->
        IF c \in Range(DecDigits) THEN 47 + IndexOf(c, DecDigits)
        ELSE IF c \in Range(UpperLetters) THEN 64 + IndexOf(c, UpperLetters)
        ELSE IF c \in Range(LowerLetters) THEN 96 + IndexOf(c, LowerLetters)
        ELSE CASE c = " " -> 32  [] c = "!" -> 33  [] c = "#" -> 35
               [] c = "+" -> 43  [] c = "-" -> 45  [] c = "." -> 46
               [] c = "/" -> 47  [] c = "<" -> 60  [] c = ">" -> 62
               [] c = "_" -> 95
               [] c = "U+00E9" -> 233 [] c = "U+0130" -> 304
               [] c = "U+0307" -> 775]

\* The number of bytes of a char in UTF-8 (str::len counts bytes).
len_utf8 == [c \in Chars |-> IF CodePoint[c] < 128 THEN 1 ELSE 2]

\* char::to_lowercase, which may yield more than one char.
char_to_lowercase ==
    [c \in Chars |->
        IF c \in Range(UpperLetters) THEN <<LowerLetters[IndexOf(c, UpperLetters)]>>
        ELSE IF c = "U+0130" THEN <<"i", "U+0307">>
        ELSE <<c>>]

(***************************************************************************)
(* Strings                                                                 *)
(***************************************************************************)
\* The concatenation of a sequence of strings (halved, to keep the evaluation shallow)
RECURSIVE Concat(_)
Concat(ss) ==
    IF ss = <<>> THEN <<>>
    ELSE IF Len(ss) = 1 THEN ss[1]
    ELSE LET h == Len(ss) \div 2
         IN  Concat(SubSeq(ss, 1, h)) \o Concat(SubSeq(ss, h + 1, Len(ss)))

\* The sum of a sequence of numbers
RECURSIVE Sum(_)
Sum(ns) ==
    IF ns = <<>> THEN 0
    ELSE IF Len(ns) = 1 THEN ns[1]
    ELSE LET h == Len(ns) \div 2
         IN  Sum(SubSeq(ns, 1, h)) + Sum(SubSeq(ns, h + 1, Len(ns)))

\* str::to_lowercase
to_lowercase(s) == Concat([i \in DOMAIN s |-> char_to_lowercase[s[i]]])

\* Iterator::take(n)
Take(s, n) == SubSeq(s, 1, IF Len(s) < n THEN Len(s) ELSE n)

\* s repeated n times
Repeat(s, n) == [i \in 1..(n * Len(s)) |-> s[((i - 1) % Len(s)) + 1]]

\* All subsets of S of at most n elements
RECURSIVE SubsetsUpTo(_, _)
SubsetsUpTo(S, n) ==
    IF n = 0 THEN {{}}
    ELSE LET smaller == SubsetsUpTo(S, n - 1)
         IN  smaller \cup {p \cup {x} : p \in smaller, x \in S}

\* All sequences over S of length at most n
SeqsUpTo(S, n) == UNION {[1..k -> S] : k \in 0..n}

(***************************************************************************)
(* sanitize_name                                                           *)
(***************************************************************************)
\* The cut of sanitize_name: .take(255)
MaxNameLen == 255

\* The filter of sanitize_name
sanitize_keeps(c) == is_ascii_alphanumeric[c] \/ c = "-" \/ c = "_"

\* sanitize_name without its cut
sanitize_name_uncut(name) == SelectSeq(name, sanitize_keeps)

sanitize_name(name) == Take(SelectSeq(name, sanitize_keeps), MaxNameLen)


(***************************************************************************)
(* Ordering of strings (String's Ord: lexicographic by scalar value)       *)
(***************************************************************************)
\* a < b: at the first position where they differ a holds the smaller
\* scalar value, or a is a proper prefix of b
StrLess(a, b) ==
    LET differ == {i \in DOMAIN a \cap DOMAIN b : a[i] # b[i]}
    IN  IF differ = {} THEN Len(a) < Len(b)
        ELSE \E i \in differ :
                /\ \A j \in differ : i <= j
                /\ CodePoint[a[i]] < CodePoint[b[i]]

\* the sort in descending order
SortedSeq_descending(S) ==
    [i \in 1..Cardinality(S) |->
        CHOOSE x \in S : Cardinality({y \in S : StrLess(x, y)}) = i - 1]

\* Vec::sort of the elements of a set of distinct strings
SortedSeq(S) ==
    [i \in 1..Cardinality(S) |->
        CHOOSE x \in S : Cardinality({y \in S : StrLess(y, x)}) = i - 1]

Min(a, b) == IF a < b THEN a ELSE b
Max(a, b) == IF a < b THEN b ELSE a

(***************************************************************************)
(* strsim::jaro_winkler, the score find_fuzzy calls.  A score is the exact *)
(* fraction <<numerator, denominator>> of the value the crate computes in  *)
(* f64; scores are compared by cross-multiplication.                       *)
(***************************************************************************)
FracLess(x, y) == x[1] * y[2] < y[1] * x[2]
FracGeq(x, y) == ~FracLess(x, y)

\* The matching pass of generic_jaro over a[i..]: the flags set so far are
\* af (indices of a) and bf (indices of b); range is search_range.
RECURSIVE JaroFlags(_, _, _, _, _, _)
JaroFlags(a, b, i, range, af, bf) ==
    IF i > Len(a) THEN [af |-> af, bf |-> bf]
    ELSE LET min_bound == IF i - 1 > range THEN i - 1 - range ELSE 0
             max_bound == Min(Len(b), (i - 1) + range + 1)
             cand == {j \in 1..max_bound :
                         /\ min_bound <= j - 1
                         /\ a[i] = b[j]
                         /\ j \notin bf}
         IN  With(IF cand = {} THEN <<i + 1, af, bf>>
                  ELSE <<i + 1, af \cup {i},
                         bf \cup {CHOOSE x \in cand : \A y \in cand : x <= y}>>,
                  LAMBDA st : JaroFlags(a, b, st[1], range, st[2], st[3]))

\* The flagged elements of s, in order
Flagged(s, flags) == SelectSeq([i \in DOMAIN s |-> <<i, s[i]>>],
                               LAMBDA p : p[1] \in flags)

\* The similarity from the matched elements ma of a and mb of b
jaro_of(a_len, b_len, ma, mb) ==
    LET matches == Len(ma)
        transpositions ==
            Cardinality({k \in 1..matches : ma[k][2] # mb[k][2]}) \div 2
    IN  IF matches = 0 THEN <<0, 1>>
        ELSE << matches * b_len * matches + matches * a_len * matches
                  + (matches - transpositions) * a_len * b_len,
                3 * a_len * b_len * matches >>

\* strsim::generic_jaro(a, b): the Jaro similarity as a fraction
generic_jaro(a, b) ==
    IF Len(a) = 0 /\ Len(b) = 0 THEN <<1, 1>>
    ELSE IF Len(a) = 0 \/ Len(b) = 0 THEN <<0, 1>>
    ELSE LET half == Max(Len(a), Len(b)) \div 2
             search_range == IF half = 0 THEN 0 ELSE half - 1
         IN  With(JaroFlags(a, b, 1, search_range, {}, {}),
                  LAMBDA f : jaro_of(Len(a), Len(b), Flagged(a, f.af), Flagged(b, f.bf)))

\* The length of the common prefix of a and b, at most n
RECURSIVE CommonPrefix(_, _, _)
CommonPrefix(a, b, n) ==
    IF n = 0 \/ a = <<>> \/ b = <<>> \/ Head(a) # Head(b) THEN 0
    ELSE 1 + CommonPrefix(Tail(a), Tail(b), n - 1)

\* The longest prefix jaro_winkler rewards: .take(4)
WinklerPrefix == 4

\* The Jaro-Winkler distance, 1 - similarity, in place of the similarity
jaro_winkler_distance(a, b) ==
    With(generic_jaro(a, b),
         LAMBDA sim :
             IF FracLess(<<7, 10>>, sim)
             THEN << 10 * sim[2] - 10 * sim[1]
                       - CommonPrefix(a, b, WinklerPrefix) * (sim[2] - sim[1]),
                     10 * sim[2] >>
             ELSE << sim[2] - sim[1], sim[2] >>)

\* strsim::jaro_winkler(a, b): the similarity as a fraction
jaro_winkler(a, b) ==
    With(generic_jaro(a, b),
         LAMBDA sim :
             IF FracLess(<<7, 10>>, sim)
             THEN LET prefix_length == CommonPrefix(a, b, WinklerPrefix)
                  IN  << 10 * sim[1] + prefix_length * (sim[2] - sim[1]), 10 * sim[2] >>
             ELSE sim)

(***************************************************************************)
(* Hex colours                                                             *)
(***************************************************************************)
Panic == [panic |-> TRUE]                \* the evaluation panicked
Ok(x) == [ok |-> x]                      \* the evaluation returned x
IsPanic(x) == "panic" \in DOMAIN x

HexLetters == <<"a", "b", "c", "d", "e", "f">>
HexDigits == Range(DecDigits) \cup Range(HexLetters)
               \cup {"A", "B", "C", "D", "E", "F"}

\* char::to_digit(16)
HexDigitValue ==
    [c \in HexDigits |->
        IF c \in Range(DecDigits) THEN IndexOf(c, DecDigits) - 1
        ELSE 9 + IndexOf(char_to_lowercase[c][1], HexLetters)]

\* str::len: the length in bytes
ByteLen(s) == Sum([i \in DOMAIN s |-> len_utf8[s[i]]])

\* The byte offset at which the i-th char of s starts
ByteOffset(s, i) == ByteLen(SubSeq(s, 1, i - 1))

\* &s[lo..hi] for byte offsets lo <= hi: Ok(the chars between two char
\* boundaries), a panic when an offset is past the end or inside a char.
ByteSlice(s, lo, hi) ==
    LET bounds == {ByteOffset(s, i) : i \in 1..(Len(s) + 1)}
    IN  IF lo \in bounds /\ hi \in bounds
        THEN LET first == CHOOSE i \in 1..(Len(s) + 1) : ByteOffset(s, i) = lo
                 last == CHOOSE i \in 1..(Len(s) + 1) : ByteOffset(s, i) = hi
             IN  Ok(SubSeq(s, first, last - 1))
        ELSE Panic

\* str::trim_start_matches('#')
RECURSIVE trim_start_hash(_)
trim_start_hash(s) ==
    IF s # <<>> /\ Head(s) = "#" THEN trim_start_hash(Tail(s)) ELSE s

\* The largest value of a u8
U8Max == 255

\* from_str_radix folding its digits in radix 10
RECURSIVE FoldHex_radix10(_, _)
FoldHex_radix10(digits, acc) ==
    IF digits = <<>> THEN Some(acc)
    ELSE IF Head(digits) \notin HexDigits THEN None
    ELSE LET v == acc * 10 + HexDigitValue[Head(digits)]
         IN  IF v > U8Max THEN None ELSE FoldHex_radix10(Tail(digits), v)

\* The digits of from_str_radix folded from the left; None on a char that is
\* no hex digit or on overflow of u8.
RECURSIVE FoldHex(_, _)
FoldHex(digits, acc) ==
    IF digits = <<>> THEN Some(acc)
    ELSE IF Head(digits) \notin HexDigits THEN None
    ELSE LET v == acc * 16 + HexDigitValue[Head(digits)]
         IN  IF v > U8Max THEN None ELSE FoldHex(Tail(digits), v)

\* u8::from_str_radix(src, 16): Some(value) for Ok, None for Err.  A single
\* leading '+' is accepted; an empty string or a lone sign is an error.
from_str_radix(src) ==
    IF src = <<>> THEN None
    ELSE IF Len(src) = 1 /\ src[1] \in {"+", "-"} THEN None
    ELSE IF src[1] = "+" THEN FoldHex(Tail(src), 0)
    ELSE FoldHex(src, 0)

unwrap_or(o, d) == IF IsSome(o) THEN o.some ELSE d

\* HashMap::get on a palette (a function from slot keys to hex strings)
palette_get(palette, key) ==
    IF key \in DOMAIN palette THEN Some(palette[key]) ELSE None

(***************************************************************************)
(* The directory tree.  fs.base16 and fs.base24 model data/schemes/base16  *)
(* and data/schemes/base24: Missing when read_dir fails, otherwise         *)
(* Dir(files) for a function from the file names of the directory to their *)
(* contents.  A content is Unreadable (read_to_string fails), Unparseable  *)
(* (serde_yaml fails) or Scheme(palette) (a SchemeYaml with that palette). *)
(***************************************************************************)
Missing == [exists |-> FALSE, files |-> <<>>]
Dir(files) == [exists |-> TRUE, files |-> files]
IsMissing(dir) == ~dir.exists
Unreadable == [kind |-> "unreadable"]
Unparseable == [kind |-> "unparseable"]
Scheme(palette) == [kind |-> "scheme", palette |-> palette]

\* The index of the last '.' of a file name, 0 when it has none
LastDot(file) ==
    LET dots == {i \in DOMAIN file : file[i] = "."}
    IN  IF dots = {} THEN 0 ELSE CHOOSE i \in dots : \A j \in dots : j <= i

\* Path::extension: the part after the last '.', None when the name has no
\* '.', starts with its only '.', or is "..".
extension(file) ==
    IF file = <<".", ".">> \/ LastDot(file) <= 1 THEN None
    ELSE Some(SubSeq(file, LastDot(file) + 1, Len(file)))

\* Path::file_stem: the part before the last '.', the whole name when
\* extension is None.
file_stem(file) ==
    IF file = <<".", ".">> \/ LastDot(file) <= 1 THEN Some(file)
    ELSE Some(SubSeq(file, 1, LastDot(file) - 1))

YamlExt == <<"y", "a", "m", "l">>

\* std::fs::read_to_string(path) followed by serde_yaml::from_str: Some of
\* the palette of the SchemeYaml, None when either step fails.
read_scheme(tree, path) ==
    LET dir == tree[path.dir]
    IN  IF IsMissing(dir) \/ path.file \notin DOMAIN dir.files THEN None
        ELSE IF dir.files[path.file].kind = "scheme"
        THEN Some(dir.files[path.file].palette)
        ELSE None

(***************************************************************************)
(* SchemeIndex::compute_color_order                                        *)
(***************************************************************************)
color_keys ==
    <<"base00", "base01", "base02", "base03", "base04", "base05", "base06", "base07",
      "base08", "base09", "base0A", "base0B", "base0C", "base0D", "base0E", "base0F">>

accent_keys ==
    <<"base08", "base09", "base0A", "base0B", "base0C", "base0D", "base0E", "base0F">>

\* The default of a missing slot in scheme_to_vector
DefaultHex == <<"#", "0", "0", "0", "0", "0", "0">>

\* The length from which a hex value is sliced: hex.len() >= 6
HexLen == 6

\* The three components of one hex value as scheme_to_vector and
\* is_grey_scheme read them: Ok(<<r, g, b>>), Ok(<<>>) when the value is
\* shorter than 6 bytes, a panic when a slice cuts a char.
hex_components(hex) ==
    IF ByteLen(hex) >= HexLen
    THEN LET r == ByteSlice(hex, 0, 2)
             g == ByteSlice(hex, 2, 4)
             b == ByteSlice(hex, 4, 6)
         IN  IF IsPanic(r) \/ IsPanic(g) \/ IsPanic(b) THEN Panic
             ELSE Ok(<< unwrap_or(from_str_radix(r.ok), 0),
                        unwrap_or(from_str_radix(g.ok), 0),
                        unwrap_or(from_str_radix(b.ok), 0) >>)
    ELSE Ok(<<>>)

\* scheme_to_vector: Ok(the 48 components), or a panic
scheme_to_vector(palette) ==
    LET comp == [k \in DOMAIN color_keys |->
                    hex_components(trim_start_hash(
                        unwrap_or(palette_get(palette, color_keys[k]), DefaultHex)))]
    IN  IF \E k \in DOMAIN comp : IsPanic(comp[k]) THEN Panic
        ELSE Ok(Concat([k \in DOMAIN comp |->
                          IF comp[k].ok = <<>> THEN <<0, 0, 0>> ELSE comp[k].ok]))

\* color_distance squared: the sum under the square root.  The sums are
\* integers below 2^53 and f64's sqrt is strictly increasing on them, so
\* partial_cmp orders the distances as < orders these sums.
color_distance(a, b) ==
    Sum([i \in DOMAIN a |-> (a[i] - b[i]) * (a[i] - b[i])])

\* The pairs <<max, min>> of 8-bit components with 5 * (max - min) = max for
\* which the f64 value of ((max/255.0) - (min/255.0)) / (max/255.0) is
\* rounded below the f64 value of 0.2.
SaturationRoundsBelow ==
    { <<65, 52>>, <<85, 68>>, <<105, 84>>, <<125, 100>>, <<130, 104>>,
      <<145, 116>>, <<155, 124>>, <<165, 132>>, <<170, 136>>, <<175, 140>>,
      <<185, 148>>, <<195, 156>>, <<205, 164>>, <<210, 168>>, <<215, 172>>,
      <<225, 180>>, <<235, 188>>, <<245, 196>>, <<250, 200>>, <<255, 204>> }

\* saturation < 0.2 for the components c = <<r, g, b>>
low_saturation(c) ==
    LET max == Max(Max(c[1], c[2]), c[3])
        min == Min(Min(c[1], c[2]), c[3])
    IN  \/ max = 0
        \/ 5 * (max - min) < max
        \/ <<max, min>> \in SaturationRoundsBelow

\* The least number of low-saturation accents of a grey scheme
GreyCount == 5

\* is_grey_scheme: Ok(TRUE/FALSE), or a panic
is_grey_scheme(palette) ==
    LET comp == [k \in DOMAIN accent_keys |->
                    IF accent_keys[k] \in DOMAIN palette
                    THEN hex_components(trim_start_hash(palette[accent_keys[k]]))
                    ELSE Ok(<<>>)]
    IN  IF \E k \in DOMAIN comp : IsPanic(comp[k]) THEN Panic
        ELSE Ok(Cardinality({k \in DOMAIN comp :
                   comp[k].ok # <<>> /\ low_saturation(comp[k].ok)}) >= GreyCount)

\* Iterator::min_by over the indices in idx (ascending) by key: the first
\* index whose key is least.
min_by(idx, key(_)) ==
    CHOOSE i \in idx :
        /\ \A j \in idx : key(i) <= key(j)
        /\ \A j \in idx : key(j) = key(i) => i <= j

\* the traversal choosing the scheme nearest to the start of the tour, not
\* to the scheme visited last
RECURSIVE traverse_from_start(_, _)
traverse_from_start(vectors, order) ==
    LET unvisited == {i \in DOMAIN vectors : \A k \in DOMAIN order : order[k] # i}
    IN  IF unvisited = {} THEN order
        ELSE With(Tabulated([i \in unvisited |->
                                color_distance(vectors[order[1]], vectors[i])]),
                  LAMBDA dist :
                      With(Append(order, min_by(unvisited, LAMBDA i : dist[i])),
                           LAMBDA next : traverse_from_start(vectors, next)))

\* The nearest-neighbour traversal: order is the tour so far
RECURSIVE traverse(_, _)
traverse(vectors, order) ==
    LET unvisited == {i \in DOMAIN vectors : \A k \in DOMAIN order : order[k] # i}
    IN  IF unvisited = {} THEN order
        ELSE With(Tabulated([i \in unvisited |->
                                color_distance(vectors[order[Len(order)]], vectors[i])]),
                  LAMBDA dist :
                      With(Append(order, min_by(unvisited, LAMBDA i : dist[i])),
                           LAMBDA next : traverse(vectors, next)))

\* The tour before the partition: indices into schemes_with_data
greedy_tour(vectors) ==
    With(Tabulated([i \in DOMAIN vectors |->
                       vectors[i][1] + vectors[i][2] + vectors[i][3]]),
         LAMBDA darkness :
             With(<<min_by(DOMAIN vectors, LAMBDA i : darkness[i])>>,
                  LAMBDA start : traverse(vectors, start)))

\* the partition with its predicate un-negated: the grey elements lead
partition_grey_first(order, grey) ==
    SelectSeq(order, LAMBDA i : grey[i]) \o SelectSeq(order, LAMBDA i : ~grey[i])

\* the partition with the grey group in reverse order
partition_grey_reversed(order, grey) ==
    SelectSeq(order, LAMBDA i : ~grey[i])
        \o [k \in 1..Len(SelectSeq(order, LAMBDA i : grey[i])) |->
               SelectSeq(order, LAMBDA i : grey[i])
                   [Len(SelectSeq(order, LAMBDA i : grey[i])) + 1 - k]]

\* Iterator::partition followed by chain: the elements failing grey in
\* order, then those passing it in order.
partition_grey(order, grey) ==
    SelectSeq(order, LAMBDA i : ~grey[i]) \o SelectSeq(order, LAMBDA i : grey[i])

\* The tour over the vectors vec, partitioned by grey, as names: Ok(the
\* names), or a panic when a vector or a classification panicked.
ordered_names(names, vec, grey) ==
    IF \E i \in DOMAIN vec : IsPanic(vec[i]) THEN Panic
    ELSE IF \E i \in DOMAIN grey : IsPanic(grey[i]) THEN Panic
    ELSE With(Tabulated([i \in DOMAIN vec |-> vec[i].ok]),
              LAMBDA vectors :
                  With(partition_grey(greedy_tour(vectors),
                                      Tabulated([i \in DOMAIN grey |-> grey[i].ok])),
                       LAMBDA order : Ok([k \in DOMAIN order |-> names[order[k]]])))

\* The schemes whose file reads and parses, sorted by name, with the
\* palette of each
with_data(tree, map, names) ==
    Tabulated([i \in DOMAIN names |-> read_scheme(tree, map[names[i]].path).some])

\* compute_color_order giving a scheme whose file does not read or parse an
\* empty palette, and so a place in the tour
compute_color_order_keeping_all(tree, map) ==
    With(SortedSeq(DOMAIN map),
         LAMBDA names :
             IF names = <<>> THEN Ok(<<>>)
             ELSE With(Tabulated([i \in DOMAIN names |->
                                     unwrap_or(read_scheme(tree, map[names[i]].path), <<>>)]),
                       LAMBDA schemes_with_data :
                           ordered_names(
                               names,
                               Tabulated([i \in DOMAIN names |->
                                             scheme_to_vector(schemes_with_data[i])]),
                               Tabulated([i \in DOMAIN names |->
                                             is_grey_scheme(schemes_with_data[i])]))))

\* compute_color_order(schemes) over the directory tree: Ok(color_sorted), or
\* a panic.
compute_color_order(tree, map) ==
    With(SortedSeq({n \in DOMAIN map : IsSome(read_scheme(tree, map[n].path))}),
         LAMBDA names :
             IF names = <<>> THEN Ok(<<>>)
             ELSE With(with_data(tree, map, names),
                       LAMBDA schemes_with_data :
                           ordered_names(
                               names,
                               Tabulated([i \in DOMAIN names |->
                                             scheme_to_vector(schemes_with_data[i])]),
                               Tabulated([i \in DOMAIN names |->
                                             is_grey_scheme(schemes_with_data[i])]))))

(***************************************************************************)
(* SchemeIndex::load                                                       *)
(***************************************************************************)
EmptyMap == <<>>

\* HashMap::insert
insert(map, key, value) ==
    [k \in DOMAIN map \cup {key} |-> IF k = key THEN value ELSE map[k]]

\* HashMap::get
get(map, key) == IF key \in DOMAIN map THEN Some(map[key]) ELSE None

\* The orders in which read_dir may yield the entries of a directory
Orders(dir) ==
    IF IsMissing(dir) THEN {<<>>}
    ELSE {o \in [1..Cardinality(DOMAIN dir.files) -> DOMAIN dir.files] :
             \A i, j \in DOMAIN o : i # j => o[i] # o[j]}

\* the loop body keeping the file stem as the key, neither lowercased nor
\* sanitized
load_entry_raw_stem(map, system, file) ==
    IF extension(file) = Some(YamlExt)
    THEN LET name == file_stem(file).some
         IN  IF name = <<>> THEN map
             ELSE insert(map, name, [name |-> name,
                                     path |-> [dir |-> system, file |-> file],
                                     system |-> system])
    ELSE map

\* The body of the loop over the entries of one directory, for one entry
load_entry(map, system, file) ==
    IF extension(file) = Some(YamlExt)
    THEN LET name == sanitize_name(to_lowercase(file_stem(file).some))
         IN  IF name = <<>> THEN map
             ELSE insert(map, name, [name |-> name,
                                     path |-> [dir |-> system, file |-> file],
                                     system |-> system])
    ELSE map

\* The loop over the entries of one directory, in the order read_dir yields
RECURSIVE load_dir(_, _, _)
load_dir(map, system, entries) ==
    IF entries = <<>> THEN map
    ELSE load_dir(load_entry(map, system, Head(entries)), system, Tail(entries))

\* the loops scanning data/schemes/base24 before data/schemes/base16
scan_schemes_base24_first(tree) ==
    { load_dir(load_dir(EmptyMap, "base24", o24), "base16", o16) :
        o16 \in Orders(tree.base16), o24 \in Orders(tree.base24) }

\* The loops of SchemeIndex::load over the two directories: the maps they
\* may build, one for each pair of orders read_dir may yield.
scan_schemes(tree) ==
    { load_dir(load_dir(EmptyMap, "base16", o16), "base24", o24) :
        o16 \in Orders(tree.base16), o24 \in Orders(tree.base24) }

(***************************************************************************)
(* TemplateIndex::load.  fs.templates models data/templates: Missing, or   *)
(* Dir of a function from entry names to entries.  An entry is a plain file *)
(* (is_dir FALSE) or a repository directory with config (None when         *)
(* templates/config.yaml is unreadable or no mapping, otherwise Some of    *)
(* the set of template names it declares) and files (the template names t  *)
(* for which templates/t.mustache exists).                                 *)
(***************************************************************************)
Repo(config, files) == [is_dir |-> TRUE, config |-> config, files |-> files]
PlainFile == [is_dir |-> FALSE, config |-> None, files |-> {}]

Base16Prefix == <<"b", "a", "s", "e", "1", "6", "-">>
Base24Prefix == <<"b", "a", "s", "e", "2", "4", "-">>

starts_with(s, prefix) ==
    Len(s) >= Len(prefix) /\ SubSeq(s, 1, Len(prefix)) = prefix

\* str::trim_start_matches(prefix): the prefix removed as often as it leads
RECURSIVE trim_start_matches(_, _)
trim_start_matches(s, prefix) ==
    IF starts_with(s, prefix)
    THEN trim_start_matches(SubSeq(s, Len(prefix) + 1, Len(s)), prefix)
    ELSE s

short_repo(repo_name) ==
    sanitize_name(trim_start_matches(trim_start_matches(repo_name, Base16Prefix),
                                     Base24Prefix))

DefaultName == <<"d", "e", "f", "a", "u", "l", "t">>

\* The key without the rule for the template named "default"
template_key_by_count(short, template_count, template_name) ==
    IF template_count = 1
    THEN short
    ELSE short \o <<"-">> \o template_name

\* The key of template template_name of a repository declaring
\* template_count templates
template_key(short, template_count, template_name) ==
    IF template_count = 1 \/ template_name = DefaultName
    THEN short
    ELSE short \o <<"-">> \o template_name

\* The loop over the templates a config declares; the keys of one repository
\* differ, so the order of config.iter() does not show.
RECURSIVE load_templates(_, _, _, _)
load_templates(map, repo_name, repo, todo) ==
    IF todo = {} THEN map
    ELSE LET template_name == CHOOSE t \in todo : TRUE
             key == template_key(short_repo(repo_name),
                                 Cardinality(repo.config.some), template_name)
             next == IF template_name \in repo.files
                     THEN insert(map, key,
                                 [name |-> key,
                                  path |-> [repo |-> repo_name, file |-> template_name],
                                  repo |-> repo_name])
                     ELSE map
         IN  load_templates(next, repo_name, repo, todo \ {template_name})

\* The body of the loop over the entries of data/templates, for one entry
load_repo(map, tree, repo_name) ==
    LET repo == tree.files[repo_name]
    IN  IF ~repo.is_dir THEN map
        ELSE IF ~IsSome(repo.config) THEN map
        ELSE IF short_repo(repo_name) = <<>> THEN map
        ELSE load_templates(map, repo_name, repo, repo.config.some)

RECURSIVE load_repos(_, _, _)
load_repos(map, tree, entries) ==
    IF entries = <<>> THEN map
    ELSE load_repos(load_repo(map, tree, Head(entries)), tree, Tail(entries))

\* TemplateIndex::load with read_dir yielding the entries in order
template_index_load(tree, order) == load_repos(EmptyMap, tree, order)

\* TemplateIndex::find
template_find(map, name) == get(map, to_lowercase(name))

(***************************************************************************)
(* Lookups of SchemeIndex                                                  *)
(***************************************************************************)
\* Iterator::position
position(list, name) ==
    LET hits == {i \in DOMAIN list : list[i] = name}
    IN  IF hits = {} THEN None ELSE Some(CHOOSE i \in hits : \A j \in hits : i <= j)

\* get_neighbors taking the list as a ring: the ends are each other's neighbours
get_neighbors_wrapping(list, name) ==
    LET p == position(list, name)
    IN  IF ~IsSome(p) THEN <<None, None>>
        ELSE << Some(list[IF p.some = 1 THEN Len(list) ELSE p.some - 1]),
                Some(list[IF p.some = Len(list) THEN 1 ELSE p.some + 1]) >>

\* get_neighbors taking a name that is not in the list as standing before
\* its first name
get_neighbors_absent_first(list, name) ==
    LET p == position(list, name)
    IN  IF ~IsSome(p)
        THEN <<None, IF list = <<>> THEN None ELSE Some(list[1])>>
        ELSE << IF p.some - 1 >= 1 THEN Some(list[p.some - 1]) ELSE None,
                IF p.some + 1 <= Len(list) THEN Some(list[p.some + 1]) ELSE None >>

\* SchemeIndex::get_neighbors on the chosen list: <<prev, next>>
get_neighbors(list, name) ==
    LET p == position(list, name)
    IN  IF ~IsSome(p) THEN <<None, None>>
        ELSE << IF p.some - 1 >= 1 THEN Some(list[p.some - 1]) ELSE None,
                IF p.some + 1 <= Len(list) THEN Some(list[p.some + 1]) ELSE None >>

\* find_exact with the query looked up as given
find_exact_cased(map, name) == get(map, name)

\* SchemeIndex::find_exact
find_exact(map, name) == get(map, to_lowercase(name))

\* Iterator::max_by over the candidates (in iteration order): the last of
\* the elements whose score is greatest, None when there is none.
max_by(cands, score(_)) ==
    IF cands = {} THEN None
    ELSE Some(CHOOSE i \in cands :
                 /\ \A j \in cands : FracGeq(score(i), score(j))
                 /\ \A j \in cands : FracGeq(score(j), score(i)) => j <= i)

\* The map of find_fuzzy: the similarity of each name of sorted to the
\* lowercased query
similarities(sorted, query_lower) ==
    With(query_lower,
         LAMBDA q : Tabulated([i \in DOMAIN sorted |-> jaro_winkler(q, sorted[i])]))

\* find_fuzzy without its filter on the threshold
find_fuzzy_unfiltered(map, sorted, query, threshold) ==
    With(similarities(sorted, to_lowercase(query)),
         LAMBDA sim :
             With(max_by(DOMAIN sorted, LAMBDA i : sim[i]),
                  LAMBDA best :
                      IF IsSome(best) THEN get(map, sorted[best.some]) ELSE None))

\* SchemeIndex::find_fuzzy
find_fuzzy(map, sorted, query, threshold) ==
    With(similarities(sorted, to_lowercase(query)),
         LAMBDA sim :
             With(max_by({i \in DOMAIN sorted : FracGeq(sim[i], threshold)},
                         LAMBDA i : sim[i]),
                  LAMBDA best :
                      IF IsSome(best) THEN get(map, sorted[best.some]) ELSE None))

(***************************************************************************)
(* The per-slot template variables of handle_scheme_template               *)
(***************************************************************************)
\* u8::to_string / u32::to_string
RECURSIVE to_string(_)
to_string(n) ==
    IF n < 10 THEN <<DecDigits[n + 1]>>
    ELSE to_string(n \div 10) \o <<DecDigits[(n % 10) + 1]>>

\* The factor from an 8-bit to a 16-bit component
Rgb16Factor == 257

\* the 16-bit component by a shift alone: the low byte stays zero
rgb16_shifted(v) == v * (Rgb16Factor - 1)

rgb16(v) == v * Rgb16Factor

\* The digits after the point of format!("{:.6}", ..)
DecPlaces == 6

Pow10(n) == IF n = 0 THEN 1 ELSE LET p[i \in 0..n] == IF i = 0 THEN 1 ELSE 10 * p[i - 1]
                                 IN  p[n]

\* The digits of n padded with zeros on the left to width w
zero_pad(n, w) ==
    LET d == to_string(n)
    IN  [i \in 1..(w - Len(d)) |-> "0"] \o d

\* format!("{:.6}", v as f64 / 255.0).  The quotient v/255 is never within
\* the error of f64 of a rounding boundary of the sixth digit (2 * 10^6 * v
\* is even and 255 * (2k + 1) is odd), so the string is v/255 rounded to the
\* nearest millionth.
dec(v) ==
    LET scale == Pow10(DecPlaces)
        rounded == (2 * v * scale + U8Max) \div (2 * U8Max)
    IN  to_string(rounded \div scale) \o <<".">> \o zero_pad(rounded % scale, DecPlaces)

\* The hex-bgr value
bgr(hex_r, hex_g, hex_b) == hex_b \o hex_g \o hex_r

\* The variables inserted for one palette entry (lines 828-862), as a set of
\* <<variable name, value>>: Ok(the set), or a panic when a slice of the
\* value cuts a char.
slot_variables(key, value) ==
    LET hex_value == trim_start_hash(value)
        hex == {<<key \o "-hex", hex_value>>}
    IN  IF ByteLen(hex_value) = HexLen
        THEN LET sr == ByteSlice(hex_value, 0, 2)
                 sg == ByteSlice(hex_value, 2, 4)
                 sb == ByteSlice(hex_value, 4, 6)
             IN  IF IsPanic(sr) \/ IsPanic(sg) \/ IsPanic(sb) THEN Panic
                 ELSE LET hex_r == sr.ok
                          hex_g == sg.ok
                          hex_b == sb.ok
                          parts == { <<key \o "-hex-r", hex_r>>,
                                     <<key \o "-hex-g", hex_g>>,
                                     <<key \o "-hex-b", hex_b>>,
                                     <<key \o "-hex-bgr", bgr(hex_r, hex_g, hex_b)>> }
                          r == from_str_radix(hex_r)
                          g == from_str_radix(hex_g)
                          b == from_str_radix(hex_b)
                      IN  IF IsSome(r) /\ IsSome(g) /\ IsSome(b)
                          THEN Ok(hex \cup parts \cup
                                  { <<key \o "-rgb-r", to_string(r.some)>>,
                                    <<key \o "-rgb-g", to_string(g.some)>>,
                                    <<key \o "-rgb-b", to_string(b.some)>>,
                                    <<key \o "-rgb16-r", to_string(rgb16(r.some))>>,
                                    <<key \o "-rgb16-g", to_string(rgb16(g.some))>>,
                                    <<key \o "-rgb16-b", to_string(rgb16(b.some))>>,
                                    <<key \o "-dec-r", dec(r.some)>>,
                                    <<key \o "-dec-g", dec(g.some)>>,
                                    <<key \o "-dec-b", dec(b.some)>> })
                          ELSE Ok(hex \cup parts)
        ELSE Ok(hex)

\* The loop over the palette: Ok(the variables as a function from names to
\* values), or a panic.
palette_variables(palette) ==
    LET per == [k \in DOMAIN palette |-> slot_variables(k, palette[k])]
    IN  IF \E k \in DOMAIN per : IsPanic(per[k]) THEN Panic
        ELSE LET pairs == UNION {per[k].ok : k \in DOMAIN per}
             IN  Ok([n \in {p[1] : p \in pairs} |->
                        (CHOOSE p \in pairs : p[1] = n)[2]])

(***************************************************************************)
(* The request handlers                                                    *)
(***************************************************************************)
\* The threshold both handlers pass to find_fuzzy: 0.8
Threshold == <<8, 10>>

\* The else-branches of the resolution, for the result fuzzy of find_fuzzy
fuzzy_outcome(fuzzy, sanitized) ==
    With(fuzzy,
         LAMBDA info :
             IF IsSome(info)
             THEN [outcome |-> "redirect", name |-> info.some.name]
             ELSE [outcome |-> "not_found", name |-> sanitized])

\* The resolution serving every exact match, whatever the raw name
resolve_scheme_lenient(map, sorted, scheme) ==
    With(sanitize_name(scheme),
         LAMBDA sanitized :
             With(find_exact(map, sanitized),
                  LAMBDA exact :
                      IF IsSome(exact)
                      THEN [outcome |-> "serve", info |-> exact.some]
                      ELSE fuzzy_outcome(find_fuzzy(map, sorted, sanitized, Threshold),
                                         sanitized)))

\* the resolution redirecting an exact match to the sanitized request name,
\* not to the name of the record
resolve_scheme_to_sanitized(map, sorted, scheme) ==
    With(sanitize_name(scheme),
         LAMBDA sanitized :
             With(find_exact(map, sanitized),
                  LAMBDA exact :
                      IF IsSome(exact)
                      THEN IF scheme # exact.some.name
                           THEN [outcome |-> "redirect", name |-> sanitized]
                           ELSE [outcome |-> "serve", info |-> exact.some]
                      ELSE fuzzy_outcome(find_fuzzy(map, sorted, sanitized, Threshold),
                                         sanitized)))

\* The resolution of the scheme name that opens handle_scheme and
\* handle_scheme_template
resolve_scheme(map, sorted, scheme) ==
    With(sanitize_name(scheme),
         LAMBDA sanitized :
             With(find_exact(map, sanitized),
                  LAMBDA exact :
                      IF IsSome(exact)
                      THEN IF scheme # exact.some.name
                           THEN [outcome |-> "redirect", name |-> exact.some.name]
                           ELSE [outcome |-> "serve", info |-> exact.some]
                      ELSE fuzzy_outcome(find_fuzzy(map, sorted, sanitized, Threshold),
                                         sanitized)))

PermanentRedirect(location) == [status |-> 308, location |-> location]
NotFound(what) == [status |-> 404, what |-> what]
InternalError == [status |-> 500]

\* The content of the file a SchemeInfo points to
content_at(tree, path) == tree[path.dir].files[path.file]

\* handle_scheme for the path parameter scheme, with the format the query
\* and the accept header ask for ("yaml", "json" or "html") and by_color
handle_scheme(tree, map, sorted, colors, scheme, format, by_color) ==
    With(resolve_scheme(map, sorted, scheme),
         LAMBDA res :
             IF res.outcome = "redirect" THEN PermanentRedirect(<<res.name>>)
             ELSE IF res.outcome = "not_found" THEN NotFound("scheme")
             ELSE LET info == res.info
                      content == content_at(tree, info.path)
                      headers == [status |-> 200, content_type |-> format,
                                  x_scheme_name |-> info.name,
                                  x_scheme_system |-> info.system]
                  IN  IF content.kind = "unreadable" THEN InternalError
                      ELSE IF format = "yaml" THEN headers
                      ELSE IF content.kind # "scheme" THEN InternalError
                      ELSE IF format = "json" THEN headers
                      ELSE With(get_neighbors(IF by_color THEN colors ELSE sorted,
                                              info.name),
                                LAMBDA n :
                                    [status |-> 200, content_type |-> format,
                                     x_scheme_name |-> info.name,
                                     x_scheme_system |-> info.system,
                                     prev |-> n[1], next |-> n[2]]))

\* handle_scheme_template for the path parameters scheme and template.  The
\* read of the template file and its compilation and rendering by the
\* template engine succeed here; the response carries the variables the
\* engine is fed.
handle_scheme_template(tree, map, sorted, tmap, scheme, template) ==
    With(resolve_scheme(map, sorted, scheme),
         LAMBDA res :
             LET sanitized_template == sanitize_name(template)
                 template_info == template_find(tmap, sanitized_template)
             IN  IF res.outcome = "redirect"
                 THEN PermanentRedirect(<<res.name, sanitized_template>>)
                 ELSE IF res.outcome = "not_found" THEN NotFound("scheme")
                 ELSE IF ~IsSome(template_info) THEN NotFound("template")
                 ELSE LET info == res.info
                          content == content_at(tree, info.path)
                      IN  IF content.kind # "scheme" THEN InternalError
                          ELSE With(palette_variables(content.palette),
                                    LAMBDA data :
                                        IF IsPanic(data) THEN Panic
                                        ELSE [status |-> 200, content_type |-> "text",
                                              x_scheme_name |-> info.name,
                                              x_template_name |-> template_info.some.name,
                                              data |-> data.ok]))

(***************************************************************************)
(* Runs of one pure function: Init draws the argument, the action applies  *)
(* the function.  The catalogs and the request variables are not used.     *)
(***************************************************************************)
NoCatalog ==
    /\ fs = <<>> /\ schemes = <<>> /\ names_sorted = <<>> /\ color_sorted = <<>>
    /\ templates = <<>> /\ request = None /\ response = None

CatalogVars == <<fs, schemes, names_sorted, color_sorted, templates, request, response>>

\* Bound: the longest argument of sanitize_name enumerated char by char
SanMaxLen == 3

SanAlphabet == {"a", "Z", "9", "-", "_", ".", "/", " ", "U+00E9"}

Traversal == <<".", ".", "/", ".", ".", "/", ".", ".", "/",
               "e", "t", "c", "/", "p", "a", "s", "s", "w", "d">>

\* Arguments longer than the cut, around it, and mixed with stripped chars
LongNames ==
    { Repeat(<<"x">>, MaxNameLen - 1), Repeat(<<"x">>, MaxNameLen),
      Repeat(<<"x">>, MaxNameLen + 1),
      Repeat(<<"a", ".">>, MaxNameLen + 45),
      Repeat(<<"x">>, MaxNameLen - 1) \o <<"/", "y", "z">> }

SanitizeInputs == SeqsUpTo(SanAlphabet, SanMaxLen) \cup LongNames \cup {Traversal}

InitSanitize ==
    /\ pc = "call"
    /\ call \in {[fn |-> "sanitize_name", arg |-> s] : s \in SanitizeInputs}
    /\ result = None
    /\ NoCatalog

CallSanitize ==
    /\ pc = "call"
    /\ call.fn = "sanitize_name"
    /\ result' = sanitize_name(call.arg)
    /\ pc' = "done"
    /\ UNCHANGED <<call, CatalogVars>>

NextSanitize == CallSanitize

SpecSanitize == InitSanitize /\ [][NextSanitize]_vars

(***************************************************************************)
(* C4                                                                      *)
(***************************************************************************)
\* The characters [A-Za-z0-9_-], written out
Whitelist ==
    {"a","b","c","d","e","f","g","h","i","j","k","l","m","n","o","p","q","r",
     "s","t","u","v","w","x","y","z","A","B","C","D","E","F","G","H","I","J",
     "K","L","M","N","O","P","Q","R","S","T","U","V","W","X","Y","Z",
     "0","1","2","3","4","5","6","7","8","9","-","_"}

\* out is the chars of s that are in W, in their order in s, cut to its first
\* n chars: the k-th char of s that is in W is the k-th char of out, for k <= n.
IsKeptPrefix(out, s, W, n) ==
    LET K == {i \in DOMAIN s : s[i] \in W}
        Rank(i) == Cardinality({j \in K : j <= i})
    IN  /\ Len(out) = (IF Cardinality(K) < n THEN Cardinality(K) ELSE n)
        /\ \A i \in K : Rank(i) <= n => out[Rank(i)] = s[i]

\* C4: sanitize_name(s) is the sequence of the chars of s that are ASCII
\* letters, ASCII digits, '-' or '_', in their original order, cut to its
\* first 255 chars; so it holds no '/' and no '.', is at most 255 long, is a
\* fixed point of sanitize_name, and "../../../etc/passwd" gives "etcpasswd".
C4_Sanitize ==
    pc = "done" =>
        /\ IsKeptPrefix(result, call.arg, Whitelist, 255)
        /\ Len(result) <= 255
        /\ \A i \in DOMAIN result : result[i] \notin {"/", "."}
        /\ sanitize_name(result) = result
        /\ call.arg = Traversal =>
               result = <<"e", "t", "c", "p", "a", "s", "s", "w", "d">>

\* C4's case: an argument with stripped chars and more than 255 kept chars
\* has been sanitized to exactly 255 chars.
C4_Witness ==
    /\ pc = "done"
    /\ Len(call.arg) > 255
    /\ \E i \in DOMAIN call.arg : call.arg[i] = "."
    /\ Len(result) = 255


(***************************************************************************)
(* Runs of the variable derivation on a palette of one slot                *)
(***************************************************************************)
\* All strings of two hex digits
HexPairs == {<<a, b>> : a \in HexDigits, b \in HexDigits}

F9 == <<"f", "9">>
H26 == <<"2", "6">>
H72 == <<"7", "2">>

\* Well-formed values: every byte in each of the three positions, written
\* with and without the leading '#'
WellFormedHex ==
    LET six == {p \o H26 \o H72 : p \in HexPairs}
                 \cup {F9 \o p \o H72 : p \in HexPairs}
                 \cup {F9 \o H26 \o p : p \in HexPairs}
    IN  six \cup {<<"#">> \o h : h \in six}

\* Values that are not six hex digits
MalformedHex ==
    { <<>>, <<"#">>, <<"f", "f", "f">>, <<"#", "f", "f", "f">>,
      <<"#", "f", "f", "0", "0", "0", "0", "0">>,
      <<"#", "g", "g", "0", "0", "0", "0">>,
      <<"+", "f", "+", "f", "+", "f">>,
      <<"#", "0", "0", " ", "0", "0", "0">>,
      <<"a", "U+00E9", "1", "2", "3">>,
      <<"U+00E9", "1", "2", "3", "4">> }

DeriveSlot == "base08"

InitDerive ==
    /\ pc = "call"
    /\ call \in {[fn |-> "palette_variables", arg |-> [k \in {DeriveSlot} |-> v]] :
                    v \in WellFormedHex \cup MalformedHex}
    /\ result = None
    /\ NoCatalog

CallDerive ==
    /\ pc = "call"
    /\ call.fn = "palette_variables"
    /\ result' = palette_variables(call.arg)
    /\ pc' = "done"
    /\ UNCHANGED <<call, CatalogVars>>

NextDerive == CallDerive

SpecDerive == InitDerive /\ [][NextDerive]_vars

(***************************************************************************)
(* The server: main forces SCHEME_INDEX, then TEMPLATE_INDEX, then serves  *)
(* requests.                                                               *)
(***************************************************************************)
\* Palette values
Black == <<"#", "0", "0", "0", "0", "0", "0">>
White == <<"#", "f", "f", "f", "f", "f", "f">>
Dark == <<"#", "2", "0", "2", "0", "2", "0">>
Light == <<"#", "e", "0", "e", "0", "e", "0">>
Grey == <<"#", "8", "0", "8", "0", "8", "0">>
Red == <<"#", "f", "9", "2", "6", "7", "2">>
Blue == <<"6", "6", "D", "9", "E", "F">>
Pale == <<"#", "f", "f", "c", "c", "c", "c">>

\* A palette of the 16 slots: background slots, foreground slots, accents
Uniform(bg, fg, accent) ==
    [k \in Range(color_keys) |->
        IF k \in {"base00", "base01", "base02", "base03"} THEN bg
        ELSE IF k \in {"base04", "base05", "base06", "base07"} THEN fg
        ELSE accent]

\* The files the scheme directories of the server runs are drawn from, each
\* with its content
SchemeFiles ==
    { [file |-> <<"m", "o", "n", "o", "k", "a", "i", ".", "y", "a", "m", "l">>,
       content |-> Scheme(Uniform(Dark, Light, Red))],
      [file |-> <<"M", "o", "n", "o", "k", "a", "i", ".", "y", "a", "m", "l">>,
       content |-> Scheme(Uniform(Black, White, Grey))],
      [file |-> <<"m", "o", "n", "o", "k", "a", "y", ".", "y", "a", "m", "l">>,
       content |-> Unparseable],
      [file |-> <<"d", "r", "a", "c", "u", "l", "a", ".", "y", "a", "m", "l">>,
       content |-> Scheme(Uniform(White, Black, Blue))],
      [file |-> <<"x", "y", "z", "z", "y", "1", "2", ".", "y", "a", "m", "l">>,
       content |-> Unreadable],
      [file |-> <<"n", "o", "r", "d", ".", "y", "a", "m", "l">>,
       content |-> Scheme(Uniform(Black, Light, Pale))],
      [file |-> <<"R", "E", "A", "D", "M", "E", ".", "m", "d">>,
       content |-> Unparseable],
      [file |-> <<".", ".", "y", "a", "m", "l">>,
       content |-> Scheme(Uniform(Black, White, Red))] }

Systems == {"base16", "base24"}

\* Bound: the number of files in data/schemes of a server run
MaxFiles == 3

\* The directory of system sys holding the chosen files; missing when the
\* run has no such directory
DirOf(chosen, sys, missing) ==
    IF sys \in missing THEN Missing
    ELSE LET here == {c \in chosen : c.dir = sys}
         IN  Dir([f \in {c.entry.file : c \in here} |->
                     (CHOOSE c \in here : c.entry.file = f).entry.content])

\* data/templates of the server runs
ServerTemplates ==
    Dir([n \in { <<"b", "a", "s", "e", "1", "6", "-", "v", "i", "m">>,
             <<"b", "a", "s", "e", "2", "4", "-", "f", "o", "o">> } |->
        IF n = <<"b", "a", "s", "e", "1", "6", "-", "v", "i", "m">>
        THEN Repo(Some({DefaultName}), {DefaultName})
        ELSE Repo(Some({DefaultName, <<"e", "x", "t", "r", "a">>}),
                  {DefaultName, <<"e", "x", "t", "r", "a">>})])

\* Any of the files may be in data/schemes/base16; data/schemes/base24 draws
\* from two of them
Candidates ==
    {[dir |-> "base16", entry |-> e] : e \in SchemeFiles}
    \cup {[dir |-> "base24", entry |-> e] :
             e \in {f \in SchemeFiles :
                       f.file \in {<<"m", "o", "n", "o", "k", "a", "i", ".", "y", "a", "m", "l">>,
                                   <<"d", "r", "a", "c", "u", "l", "a", ".", "y", "a", "m", "l">>}}}

ServerTrees ==
    { [base16 |-> DirOf(chosen, "base16", missing),
       base24 |-> DirOf(chosen, "base24", missing),
       templates |-> ServerTemplates] :
        chosen \in SubsetsUpTo(Candidates, MaxFiles),
        missing \in SUBSET Systems }

\* The scheme names requests ask for
RawNames ==
    { <<"m", "o", "n", "o", "k", "a", "i">>,
      <<"M", "O", "N", "O", "K", "A", "I">>,
      <<"m", "o", "n", "o", "k", "i">>,
      <<"m", "o", "n", "o", "k", "a", "i", " ", ".", "!">>,
      <<"m", "o", "n", "o", "k", "a">>,
      <<"x", "y", "z", "z", "y", "1", "2", "3">>,
      <<"x", "y", "z", "z", "y", "1", "2", "3", "4", "5", "6">>,
      <<".", ".", "/", "d", "r", "a", "c", "u", "l", "a">>,
      <<"n", "o", "r", "d">>,
      <<"D", "r", "a", "c", "u", "l", "a">>,
      <<"d", "r", "a", "k", "u", "l", "a">>,
      <<>> }

\* The template names requests ask for
RawTemplates ==
    { <<"v", "i", "m">>, <<"V", "i", "m">>,
      <<"n", "o", "n", "e", "x", "i", "s", "t", "e", "n", "t">> }

Init ==
    /\ pc = "start"
    /\ fs \in ServerTrees
    /\ schemes = EmptyMap /\ names_sorted = <<>> /\ color_sorted = <<>>
    /\ templates = EmptyMap
    /\ request = None /\ response = None
    /\ call = None /\ result = None

\* Lazy::force(&SCHEME_INDEX): SchemeIndex::load; a panic ends the process
LoadSchemes ==
    /\ pc = "start"
    /\ \E map \in scan_schemes(fs) :
          \E color \in {compute_color_order(fs, map)} :
              IF IsPanic(color)
              THEN /\ pc' = "panicked"
                   /\ UNCHANGED <<schemes, names_sorted, color_sorted>>
              ELSE /\ pc' = "schemes_loaded"
                   /\ schemes' = map
                   /\ names_sorted' = SortedSeq(DOMAIN map)
                   /\ color_sorted' = color.ok
    /\ UNCHANGED <<call, result, fs, templates, request, response>>

\* Lazy::force(&TEMPLATE_INDEX): TemplateIndex::load
LoadTemplates ==
    /\ pc = "schemes_loaded"
    /\ \E order \in Orders(fs.templates) :
          templates' = template_index_load(fs.templates, order)
    /\ pc' = "serving"
    /\ UNCHANGED <<call, result, fs, schemes, names_sorted, color_sorted,
                   request, response>>

\* GET /{scheme}
HandleScheme ==
    /\ pc = "serving"
    /\ \E scheme \in RawNames, format \in {"yaml", "json", "html"}, by_color \in BOOLEAN :
          /\ (by_color => format = "html")
          /\ request' = [handler |-> "handle_scheme", scheme |-> scheme,
                         format |-> format, by_color |-> by_color]
          /\ response' = handle_scheme(fs, schemes, names_sorted, color_sorted,
                                       scheme, format, by_color)
    /\ pc' = "responding"
    /\ UNCHANGED <<call, result, fs, schemes, names_sorted, color_sorted, templates>>

\* GET /{scheme}/{template}
HandleSchemeTemplate ==
    /\ pc = "serving"
    /\ \E scheme \in RawNames, template \in RawTemplates :
          /\ request' = [handler |-> "handle_scheme_template", scheme |-> scheme,
                         template |-> template]
          /\ response' = handle_scheme_template(fs, schemes, names_sorted, templates,
                                                scheme, template)
    /\ pc' = "responding"
    /\ UNCHANGED <<call, result, fs, schemes, names_sorted, color_sorted, templates>>

\* the reply dropping the scheme whose page it has just served from the
\* colour order
Reply_forgetting ==
    /\ pc = "responding"
    /\ pc' = "serving"
    /\ request' = None /\ response' = None
    /\ color_sorted' = SelectSeq(color_sorted,
                                 LAMBDA n : n # sanitize_name(request.scheme))
    /\ UNCHANGED <<call, result, fs, schemes, names_sorted, templates>>

\* axum::serve writes the handler's response to the connection and waits for
\* the next request; the indices are never written after their load
Reply ==
    /\ pc = "responding"
    /\ pc' = "serving"
    /\ request' = None /\ response' = None
    /\ UNCHANGED <<call, result, fs, schemes, names_sorted, color_sorted, templates>>

\* The client follows the permanent redirect it was answered with: GET of
\* the Location, "/{name}" or "/{name}/{template}".  The Location carries no
\* query string; the accept header is the client's to send.
FollowRedirect ==
    /\ pc = "responding"
    /\ response.status = 308
    /\ IF Len(response.location) = 1
       THEN \E format \in {"yaml", "json", "html"} :
               /\ request' = [handler |-> "handle_scheme", scheme |-> response.location[1],
                              format |-> format, by_color |-> FALSE, followed |-> TRUE]
               /\ response' = handle_scheme(fs, schemes, names_sorted, color_sorted,
                                            response.location[1], format, FALSE)
       ELSE /\ request' = [handler |-> "handle_scheme_template",
                           scheme |-> response.location[1],
                           template |-> response.location[2], followed |-> TRUE]
            /\ response' = handle_scheme_template(fs, schemes, names_sorted, templates,
                                                  response.location[1], response.location[2])
    /\ pc' = "responding"
    /\ UNCHANGED <<call, result, fs, schemes, names_sorted, color_sorted, templates>>

Next ==
    \/ LoadSchemes
    \/ LoadTemplates
    \/ HandleScheme
    \/ HandleSchemeTemplate
    \/ FollowRedirect
    \/ Reply

Spec == Init /\ [][Next]_vars

(***************************************************************************)
(* C8, C10                                                                 *)
(***************************************************************************)
\* The value of a hex digit, read off the two spellings of the digits
NibbleLower == <<"0","1","2","3","4","5","6","7","8","9","a","b","c","d","e","f">>
NibbleUpper == <<"0","1","2","3","4","5","6","7","8","9","A","B","C","D","E","F">>
Nibble(c) == IF c \in Range(NibbleLower) THEN IndexOf(c, NibbleLower) - 1
             ELSE IndexOf(c, NibbleUpper) - 1

\* The integer a string of two hex digits writes
PairValue(p) == 16 * Nibble(p[1]) + Nibble(p[2])

\* The integer a string of decimal digits writes
DecimalValue(d) ==
    LET val[i \in 0..Len(d)] ==
            IF i = 0 THEN 0 ELSE 10 * val[i - 1] + (IndexOf(d[i], DecDigits) - 1)
    IN  val[Len(d)]

\* d is the decimal numeral of n, with no leading zero
IsNumeral(d, n) ==
    /\ Len(d) >= 1
    /\ \A i \in DOMAIN d : d[i] \in Range(DecDigits)
    /\ Len(d) > 1 => d[1] # "0"
    /\ DecimalValue(d) = n

IsSixHexDigits(h) == Len(h) = 6 /\ \A i \in DOMAIN h : h[i] \in HexDigits

\* The palette value of the run and the value without its leading '#'
DerivedValue == call.arg[DeriveSlot]
DerivedHex == IF DerivedValue # <<>> /\ DerivedValue[1] = "#"
              THEN Tail(DerivedValue) ELSE DerivedValue

Var(suffix) == result.ok[DeriveSlot \o suffix]

Abs(x) == IF x < 0 THEN -x ELSE x

\* d is n/255 written with one digit, a point and exactly six decimals,
\* rounded to the nearest millionth
IsDecimalOf(d, n) ==
    /\ Len(d) = 8
    /\ d[2] = "."
    /\ \A i \in {1} \cup 3..8 : d[i] \in Range(DecDigits)
    /\ LET millionths == DecimalValue(<<d[1]>> \o SubSeq(d, 3, 8))
       IN  2 * Abs(255 * millionths - 1000000 * n) <= 255

\* C8: for a slot whose value is 6 hex digits rrggbb, {slot}-rgb-r/g/b are
\* the integers 0..255 that rr, gg, bb write, {slot}-rgb16-r/g/b are those
\* integers times 257 (= v*256 + v, in 0..65535), {slot}-dec-r/g/b are
\* value/255 rounded to exactly 6 decimals, and {slot}-hex-bgr is bbggrr;
\* "f92672" gives (249, 38, 114), (63993, 9766, 29298),
\* ("0.976471", "0.149020", "0.447059") and "7226f9".
C8_DerivedVariables ==
    (pc = "done" /\ IsSixHexDigits(DerivedHex)) =>
        /\ ~IsPanic(result)
        /\ \A k \in 1..3 :
              LET c == <<"r", "g", "b">>[k]
                  v == PairValue(SubSeq(DerivedHex, 2 * k - 1, 2 * k))
              IN  /\ v \in 0..255
                  /\ IsNumeral(Var("-rgb-" \o c), v)
                  /\ IsNumeral(Var("-rgb16-" \o c), v * 257)
                  /\ v * 257 = v * 256 + v
                  /\ v * 257 \in 0..65535
                  /\ IsDecimalOf(Var("-dec-" \o c), v)
        /\ Var("-hex-bgr") = SubSeq(DerivedHex, 5, 6) \o SubSeq(DerivedHex, 3, 4)
                                \o SubSeq(DerivedHex, 1, 2)
        /\ DerivedHex = <<"f", "9", "2", "6", "7", "2">> =>
              /\ Var("-rgb-r") = <<"2", "4", "9">>
              /\ Var("-rgb-g") = <<"3", "8">>
              /\ Var("-rgb-b") = <<"1", "1", "4">>
              /\ Var("-rgb16-r") = <<"6", "3", "9", "9", "3">>
              /\ Var("-rgb16-g") = <<"9", "7", "6", "6">>
              /\ Var("-rgb16-b") = <<"2", "9", "2", "9", "8">>
              /\ Var("-dec-r") = <<"0", ".", "9", "7", "6", "4", "7", "1">>
              /\ Var("-dec-g") = <<"0", ".", "1", "4", "9", "0", "2", "0">>
              /\ Var("-dec-b") = <<"0", ".", "4", "4", "7", "0", "5", "9">>
              /\ Var("-hex-bgr") = <<"7", "2", "2", "6", "f", "9">>

\* C8's case: the variables of "#f92672" have been derived
C8_Witness ==
    /\ pc = "done"
    /\ DerivedValue = <<"#", "f", "9", "2", "6", "7", "2">>
    /\ ~IsPanic(result)
    /\ Var("-rgb16-r") = <<"6", "3", "9", "9", "3">>

\* A component written as two lowercase hex digits: format!("{:02x}", v)
format_hex2(v) == <<NibbleLower[(v \div 16) + 1], NibbleLower[(v % 16) + 1]>>

\* The components the handler parsed, formatted back as two-digit hex
Reformatted ==
    format_hex2(DecimalValue(Var("-rgb-r"))) \o format_hex2(DecimalValue(Var("-rgb-g")))
        \o format_hex2(DecimalValue(Var("-rgb-b")))

\* C10 as amended: for a string of 6 hex digits, converting it to (r, g, b)
\* and formatting the components back as two-digit lowercase hex gives the
\* string with its digits A-F in lowercase, which is the string itself
\* when it holds no uppercase digit.
C10_RoundTripLowercase ==
    (pc = "done" /\ IsSixHexDigits(DerivedHex)) =>
        /\ ~IsPanic(result)
        /\ Reformatted = to_lowercase(DerivedHex)
        /\ (\A i \in DOMAIN DerivedHex : DerivedHex[i] \notin Range(UpperLetters))
              => Reformatted = DerivedHex

\* C10 as stated: the round trip reproduces every string of 6 hex digits
\* exactly.
C10_RoundTripExact ==
    (pc = "done" /\ IsSixHexDigits(DerivedHex)) =>
        /\ ~IsPanic(result)
        /\ Reformatted = DerivedHex

\* C10's case: a string with an uppercase digit has been converted
C10_Witness ==
    /\ pc = "done"
    /\ DerivedHex = <<"F", "9", "2", "6", "7", "2">>
    /\ ~IsPanic(result)
    /\ Reformatted = <<"f", "9", "2", "6", "7", "2">>


(***************************************************************************)
(* C1, C2, C3: the lookups on the catalog SchemeIndex::load has built      *)
(***************************************************************************)
OtherCase(c) ==
    IF c \in Range(LowerLetters) THEN UpperLetters[IndexOf(c, LowerLetters)]
    ELSE IF c \in Range(UpperLetters) THEN LowerLetters[IndexOf(c, UpperLetters)]
    ELSE c

\* n with the letter case of the chars at any subset of its positions changed
CaseVariants(n) ==
    { [i \in DOMAIN n |-> IF i \in S THEN OtherCase(n[i]) ELSE n[i]] :
        S \in SUBSET DOMAIN n }

Monokai == <<"m", "o", "n", "o", "k", "a", "i">>
Monokay == <<"m", "o", "n", "o", "k", "a", "y">>
Monoki == <<"m", "o", "n", "o", "k", "i">>
Xyzzy12 == <<"x", "y", "z", "z", "y", "1", "2">>
Xyzzy123 == <<"x", "y", "z", "z", "y", "1", "2", "3">>

\* The queries the lookups are asked: the raw names and their sanitized forms
Queries == RawNames \cup {sanitize_name(q) : q \in RawNames}

\* C1: find_exact is case-insensitive and total: for every key n of the
\* catalog and every q that is n with the case of any subset of its chars
\* changed, find_exact(q) is the record named n; for a query whose lowercase
\* form is no key it is none.
C1_FindExactCaseInsensitive ==
    pc = "schemes_loaded" =>
        /\ \A n \in DOMAIN schemes :
              /\ schemes[n].name = n
              /\ \A q \in CaseVariants(n) : find_exact(schemes, q) = Some(schemes[n])
        /\ \A q \in Queries :
              to_lowercase(q) \notin DOMAIN schemes => find_exact(schemes, q) = None

\* C1's case: a request for "MONOKAI" met the record "monokai" by find_exact
\* and was redirected to it.
C1_Witness ==
    /\ pc = "responding"
    /\ request.scheme = <<"M", "O", "N", "O", "K", "A", "I">>
    /\ Monokai \in DOMAIN schemes
    /\ find_exact(schemes, request.scheme) = Some(schemes[Monokai])
    /\ response = PermanentRedirect(<<Monokai>>)

\* The thresholds find_fuzzy is asked with
Thresholds == {<<8, 10>>, <<1, 2>>, <<1, 1>>}

Score(q, n) == jaro_winkler(to_lowercase(q), n)

\* C2: find_fuzzy(query, threshold) returns a record only if the score of its
\* name against the lowercased query is >= threshold and no name of the
\* catalog scores strictly higher; it returns none exactly when no name of
\* the catalog scores >= threshold.
C2_FindFuzzyBest ==
    pc = "schemes_loaded" =>
        \A q \in {sanitize_name(x) : x \in RawNames} \cup {<<"M", "O", "N", "O", "K", "I">>},
           th \in Thresholds :
            LET r == find_fuzzy(schemes, names_sorted, q, th)
            IN  /\ IsSome(r) =>
                      /\ r.some.name \in DOMAIN schemes
                      /\ r.some = schemes[r.some.name]
                      /\ FracGeq(Score(q, r.some.name), th)
                      /\ \A n \in DOMAIN schemes :
                            ~FracLess(Score(q, r.some.name), Score(q, n))
                /\ ~IsSome(r) <=> \A n \in DOMAIN schemes : FracLess(Score(q, n), th)

\* C2's case: with "monokai" and "monokay" both scoring over 0.8 against
\* "monoki", the request was redirected to the higher-scoring "monokai".
C2_Witness ==
    /\ pc = "responding"
    /\ request.scheme = Monoki
    /\ {Monokai, Monokay} \subseteq DOMAIN schemes
    /\ FracGeq(Score(Monoki, Monokay), Threshold)
    /\ FracLess(Score(Monoki, Monokay), Score(Monoki, Monokai))
    /\ response = PermanentRedirect(<<Monokai>>)

Status(r) == IF "status" \in DOMAIN r THEN r.status ELSE 0

\* The response carries nothing of a scheme
NoContent(r) == DOMAIN r \cap {"x_scheme_name", "x_scheme_system", "data"} = {}

\* The handler went past the resolution with a record
Served(r) ==
    /\ Status(r) # 308
    /\ ~(Status(r) = 404 /\ r.what = "scheme")

\* C5: the resolution has exactly three outcomes.  The scheme is served only
\* when the raw name is the canonical name of a record; when the sanitized
\* name matches a record exactly but the raw name differs from its name, or
\* when only a fuzzy match (threshold 0.8) exists, the response is a
\* permanent redirect to the canonical name with no scheme content; when
\* there is neither match the response is not-found.
C5_ThreeOutcomes ==
    pc = "responding" =>
        LET raw == request.scheme
            key == to_lowercase(sanitize_name(raw))
            exact == key \in DOMAIN schemes
            close == {n \in DOMAIN schemes : FracGeq(jaro_winkler(key, n), <<8, 10>>)}
            best == {n \in close : \A m \in close :
                        ~FracLess(jaro_winkler(key, n), jaro_winkler(key, m))}
        IN  /\ Served(response) <=> (raw \in DOMAIN schemes /\ schemes[raw].name = raw)
            /\ (exact /\ raw # key) =>
                  /\ Status(response) = 308
                  /\ response.location[1] = key
                  /\ NoContent(response)
            /\ (~exact /\ close # {}) =>
                  /\ Status(response) = 308
                  /\ response.location[1] \in best
                  /\ NoContent(response)
            /\ (~exact /\ close = {}) => response = NotFound("scheme")

\* C5's case: handle_scheme_template was asked for "monokai .!", whose
\* sanitized form is the record "monokai", and redirected to the canonical
\* name without rendering.
C5_Witness ==
    /\ pc = "responding"
    /\ request.handler = "handle_scheme_template"
    /\ request.scheme = <<"m", "o", "n", "o", "k", "a", "i", " ", ".", "!">>
    /\ request.template = <<"v", "i", "m">>
    /\ Monokai \in DOMAIN schemes
    /\ response = PermanentRedirect(<<Monokai, <<"v", "i", "m">> >>)

(***************************************************************************)
(* C6: get_neighbors on the two orderings                                  *)
(***************************************************************************)
\* C6: for either ordering with at least two names, get_neighbors of the
\* first name is (none, second name), of the last name (second-to-last name,
\* none), and of the name at an interior position i (name at i-1, name at
\* i+1); the page of a scheme carries these neighbours.
C6_Neighbors ==
    /\ pc = "schemes_loaded" =>
          \A list \in {names_sorted, color_sorted} :
              Len(list) >= 2 =>
                  /\ get_neighbors(list, list[1]) = <<None, Some(list[2])>>
                  /\ get_neighbors(list, list[Len(list)]) =
                         <<Some(list[Len(list) - 1]), None>>
                  /\ \A i \in 2..(Len(list) - 1) :
                         get_neighbors(list, list[i]) =
                             <<Some(list[i - 1]), Some(list[i + 1])>>
    /\ (pc = "responding" /\ "prev" \in DOMAIN response) =>
          LET list == IF request.by_color THEN color_sorted ELSE names_sorted
          IN  \E i \in DOMAIN list :
                 /\ list[i] = response.x_scheme_name
                 /\ response.prev = (IF i = 1 THEN None ELSE Some(list[i - 1]))
                 /\ response.next = (IF i = Len(list) THEN None ELSE Some(list[i + 1]))

\* C6's case: the page of the scheme in the middle of a color order of three
\* names carries both of its neighbours.
C6_Witness ==
    /\ pc = "responding"
    /\ "prev" \in DOMAIN response
    /\ request.by_color
    /\ Len(color_sorted) = 3
    /\ response.x_scheme_name = color_sorted[2]
    /\ response.prev = Some(color_sorted[1])
    /\ response.next = Some(color_sorted[3])

(***************************************************************************)
(* C7: the partition of color_sorted                                       *)
(***************************************************************************)
\* is_grey_scheme on the palette of the file behind the name
IsGreyscale(n) == is_grey_scheme(content_at(fs, schemes[n].path).palette).ok

\* C7: in the color order of a built catalog every scheme classified
\* greyscale comes strictly after every scheme not classified greyscale.
C7_GreyscaleLast ==
    pc = "schemes_loaded" =>
        \A i, j \in DOMAIN color_sorted :
            (IsGreyscale(color_sorted[i]) /\ ~IsGreyscale(color_sorted[j])) => j < i

\* C7's case: the greyscale "monokai", the darkest scheme and so the start of
\* the tour, stands last, after a scheme that is not greyscale.
C7_Witness ==
    /\ pc = "schemes_loaded"
    /\ Len(color_sorted) >= 2
    /\ color_sorted[Len(color_sorted)] = Monokai
    /\ IsGreyscale(Monokai)
    /\ content_at(fs, schemes[Monokai].path).palette["base00"] = Black
    /\ ~IsGreyscale(color_sorted[1])
    /\ content_at(fs, schemes[color_sorted[1]].path).palette["base00"] # Black

(***************************************************************************)
(* Runs of TemplateIndex::load over varied data/templates directories.     *)
(* The scheme directories are missing, so the scheme index is empty.       *)
(***************************************************************************)
Extra == <<"e", "x", "t", "r", "a">>
MyTpl == <<"m", "y", ".", "t", "p", "l">>

\* The entries data/templates is drawn from
TemplateEntries ==
    { [name |-> <<"b", "a", "s", "e", "1", "6", "-", "v", "i", "m">>,
       entry |-> Repo(Some({DefaultName}), {DefaultName})],
      [name |-> <<"b", "a", "s", "e", "2", "4", "-", "f", "o", "o">>,
       entry |-> Repo(Some({DefaultName, Extra}), {DefaultName, Extra})],
      [name |-> <<"b", "a", "s", "e", "1", "6", "-", "f", "o", "o", ".", "b", "a", "r">>,
       entry |-> Repo(Some({DefaultName}), {DefaultName})],
      [name |-> <<"b", "a", "s", "e", "1", "6", "-", "b", "a", "s", "e", "1", "6", "-",
                  "v", "i", "m">>,
       entry |-> Repo(Some({DefaultName, Extra}), {DefaultName})],
      [name |-> <<"b", "a", "s", "e", "2", "4", "-", "b", "a", "s", "e", "1", "6", "-",
                  "f", "o", "o">>,
       entry |-> Repo(Some({Extra}), {Extra})],
      [name |-> <<"b", "a", "s", "e", "1", "6", "-">>,
       entry |-> Repo(Some({DefaultName}), {DefaultName})],
      [name |-> <<"b", "a", "s", "e", "1", "6", "-", "e", "m", "a", "c", "s">>,
       entry |-> Repo(None, {DefaultName})],
      [name |-> <<"n", "o", "t", "e", "s", ".", "t", "x", "t">>,
       entry |-> PlainFile],
      [name |-> <<"b", "a", "s", "e", "1", "6", "-", "V", "i", "m">>,
       entry |-> Repo(Some({DefaultName}), {DefaultName})],
      [name |-> <<"b", "a", "s", "e", "1", "6", "-", "b", "a", "r">>,
       entry |-> Repo(Some({DefaultName, MyTpl}), {DefaultName, MyTpl})] }

\* Bound: the number of entries in data/templates of a template run
MaxRepos == 3

TemplateTrees ==
    { [base16 |-> Missing, base24 |-> Missing, templates |-> t] :
        t \in {Missing} \cup
              { Dir([n \in {e.name : e \in chosen} |->
                        (CHOOSE e \in chosen : e.name = n).entry]) :
                  chosen \in SubsetsUpTo(TemplateEntries, MaxRepos) } }

InitTemplates ==
    /\ pc = "schemes_loaded"
    /\ fs \in TemplateTrees
    /\ schemes = EmptyMap /\ names_sorted = <<>> /\ color_sorted = <<>>
    /\ templates = EmptyMap
    /\ request = None /\ response = None
    /\ call = None /\ result = None

NextTemplates == LoadTemplates

SpecTemplates == InitTemplates /\ [][NextTemplates]_vars

(***************************************************************************)
(* C9: the keys of the template index                                      *)
(***************************************************************************)
\* The number of copies of prefix that lead s
LeadingCopies(s, prefix) ==
    LET n == Len(prefix)
        leads(i) == \A m \in 0..(i - 1) :
                        /\ (m + 1) * n <= Len(s)
                        /\ SubSeq(s, m * n + 1, (m + 1) * n) = prefix
    IN  CHOOSE i \in 0..Len(s) : leads(i) /\ ~leads(i + 1)

DropLeading(s, prefix) == SubSeq(s, LeadingCopies(s, prefix) * Len(prefix) + 1, Len(s))

\* The repository name without its leading "base16-"s and then "base24-"s
StrippedRepo(r) == DropLeading(DropLeading(r, Base16Prefix), Base24Prefix)

Kept(s) == SelectSeq(s, LAMBDA c : c \in Whitelist)

\* The templates the manifests of the repositories of data/templates declare
Declared ==
    UNION { {[repo |-> r, template |-> t] : t \in fs.templates.files[r].config.some} :
            r \in {x \in DOMAIN fs.templates.files :
                      /\ fs.templates.files[x].is_dir
                      /\ IsSome(fs.templates.files[x].config)} }

HasFile(d) == d.template \in fs.templates.files[d.repo].files

KeyFrom(short, d) ==
    IF Cardinality(fs.templates.files[d.repo].config.some) = 1 \/ d.template = DefaultName
    THEN short
    ELSE short \o <<"-">> \o d.template

Vim == <<"v", "i", "m">>
Foo == <<"f", "o", "o">>
FooExtra == <<"f", "o", "o", "-", "e", "x", "t", "r", "a">>

\* C9: a declared template whose file exists, in a repository whose short
\* name is not empty, gets a key built from the short name, which is the
\* repository name without its leading "base16-"s and "base24-"s and then
\* sanitized: the short name alone when the manifest declares exactly one
\* template or the template is named "default", and short name, "-",
\* template name otherwise.  The index holds these keys and no other; so
\* "base16-vim" declaring only "default" gives "vim", and "base24-foo"
\* declaring "default" and "extra" gives "foo" and "foo-extra".
C9_TemplateKeys ==
    pc = "serving" =>
        LET indexed == {d \in Declared : HasFile(d) /\ Kept(StrippedRepo(d.repo)) # <<>>}
            key(d) == KeyFrom(Kept(StrippedRepo(d.repo)), d)
        IN  /\ DOMAIN templates = {key(d) : d \in indexed}
            /\ \A k \in DOMAIN templates :
                  /\ templates[k].name = k
                  /\ \E d \in indexed :
                        /\ key(d) = k
                        /\ templates[k].repo = d.repo
                        /\ templates[k].path = [repo |-> d.repo, file |-> d.template]
            /\ Base16Prefix \o Vim \in DOMAIN fs.templates.files =>
                  Vim \in DOMAIN templates
            /\ Base24Prefix \o Foo \in DOMAIN fs.templates.files =>
                  /\ templates[Foo].path = [repo |-> Base24Prefix \o Foo, file |-> DefaultName]
                  /\ templates[FooExtra].path = [repo |-> Base24Prefix \o Foo, file |-> Extra]

\* C9's case: the index of a directory holding "base16-foo.bar" and
\* "base24-foo" has the keys "foobar", "foo" and "foo-extra".
C9_Witness ==
    /\ pc = "serving"
    /\ Base16Prefix \o <<"f", "o", "o", ".", "b", "a", "r">> \in DOMAIN fs.templates.files
    /\ Base24Prefix \o Foo \in DOMAIN fs.templates.files
    /\ DOMAIN templates = {<<"f", "o", "o", "b", "a", "r">>, Foo, FooExtra}

\* C9 as stated: the key is built from the stripped repository name itself.
C9_KeyFromStrippedName ==
    pc = "serving" =>
        \A d \in {x \in Declared : HasFile(x) /\ Kept(StrippedRepo(x.repo)) # <<>>} :
            KeyFrom(StrippedRepo(d.repo), d) \in DOMAIN templates


(***************************************************************************)
(* C11: palette values that are not six hex digits                         *)
(***************************************************************************)
\* The names of the variables the run has derived
DerivedNames == DOMAIN result.ok

\* C11: a palette value that, after the leading '#' is stripped, is not
\* exactly 6 hex digits produces only the {slot}-hex variable: none of
\* {slot}-hex-r/g/b, {slot}-hex-bgr, {slot}-rgb-*, {slot}-rgb16-* or
\* {slot}-dec-* is emitted for the slot.
C11_OnlyHex ==
    (pc = "done" /\ ~IsSixHexDigits(DerivedHex)) =>
        /\ ~IsPanic(result)
        /\ DerivedNames = {DeriveSlot \o "-hex"}

\* C11, the part the code keeps: a value whose stripped form is not 6 bytes
\* long produces only the {slot}-hex variable.
C11_OnlyHexUnlessSixBytes ==
    (pc = "done" /\ ByteLen(trim_start_hash(DerivedValue)) # HexLen) =>
        /\ ~IsPanic(result)
        /\ DerivedNames = {DeriveSlot \o "-hex"}
        /\ Var("-hex") = trim_start_hash(DerivedValue)

\* C11's case: "#gg0000" has been derived, and its six bytes were sliced
\* into {slot}-hex-r/g/b and {slot}-hex-bgr although "gg" is no hex number
C11_Witness ==
    /\ pc = "done"
    /\ DerivedValue = <<"#", "g", "g", "0", "0", "0", "0">>
    /\ ~IsPanic(result)
    /\ Var("-hex-r") = <<"g", "g">>
    /\ Var("-hex-bgr") = <<"0", "0", "0", "0", "g", "g">>
    /\ (DeriveSlot \o "-rgb-r") \notin DerivedNames


(***************************************************************************)
(* The runs of SchemeIndex::load alone, over directories that also hold    *)
(* names and palette values outside ASCII, palettes with missing slots,    *)
(* and a name as long as a file system allows.                             *)
(***************************************************************************)
\* Bound: the length of the longest file stem (NAME_MAX less ".yaml")
LongStemLen == 250

LongStem == Repeat(<<"a">>, LongStemLen)

\* A palette with missing slots and values of odd lengths and characters,
\* none of which is cut by a slice: "fff", "é12345", "#ff00000", "zzzzzz"
SparsePalette ==
    [k \in {"base00", "base01", "base08", "base09"} |->
        IF k = "base00" THEN <<"f", "f", "f">>
        ELSE IF k = "base01" THEN <<"U+00E9", "1", "2", "3", "4", "5">>
        ELSE IF k = "base08" THEN <<"#", "f", "f", "0", "0", "0", "0", "0">>
        ELSE <<"z", "z", "z", "z", "z", "z">>]

\* A palette whose base00 is "aé1234": byte 2 is inside the 'é'
CutPalette ==
    [k \in {"base00"} |-> <<"a", "U+00E9", "1", "2", "3", "4">>]

\* The files of the load runs: those of the server runs, and four more
LoadFiles ==
    SchemeFiles \cup
    { [file |-> <<"U+0130", "x", ".", "y", "a", "m", "l">>,
       content |-> Scheme(Uniform(Dark, Light, Blue))],
      [file |-> <<"o", "d", "d", ".", "y", "a", "m", "l">>,
       content |-> Scheme(SparsePalette)],
      [file |-> <<"c", "u", "t", ".", "y", "a", "m", "l">>,
       content |-> Scheme(CutPalette)],
      [file |-> LongStem \o <<".", "y", "a", "m", "l">>,
       content |-> Scheme(Uniform(Light, Dark, Grey))] }

\* Bound: the number of files in data/schemes of a load run
MaxLoadFiles == 3

\* Any of the files may be in data/schemes/base16; data/schemes/base24 may
\* hold monokai.yaml, Monokai.yaml, and a dracula.yaml that does not parse
LoadCandidates ==
    {[dir |-> "base16", entry |-> e] : e \in LoadFiles}
    \cup {[dir |-> "base24", entry |-> e] :
             e \in {f \in SchemeFiles :
                       f.file \in {<<"m", "o", "n", "o", "k", "a", "i", ".", "y", "a", "m", "l">>,
                                   <<"M", "o", "n", "o", "k", "a", "i", ".", "y", "a", "m", "l">>}}}
    \cup {[dir |-> "base24",
           entry |-> [file |-> <<"d", "r", "a", "c", "u", "l", "a", ".", "y", "a", "m", "l">>,
                      content |-> Unparseable]]}

LoadTrees ==
    { [base16 |-> DirOf(chosen, "base16", missing),
       base24 |-> DirOf(chosen, "base24", missing),
       templates |-> ServerTemplates] :
        chosen \in SubsetsUpTo(LoadCandidates, MaxLoadFiles),
        missing \in SUBSET Systems }

InitLoad ==
    /\ pc = "start"
    /\ fs \in LoadTrees
    /\ schemes = EmptyMap /\ names_sorted = <<>> /\ color_sorted = <<>>
    /\ templates = EmptyMap
    /\ request = None /\ response = None
    /\ call = None /\ result = None

NextLoad == LoadSchemes

SpecLoad == InitLoad /\ [][NextLoad]_vars


(***************************************************************************)
(* C12, C14 - C19: the catalog SchemeIndex::load has built                 *)
(***************************************************************************)
CanonicalChars == Range(LowerLetters) \cup Range(DecDigits) \cup {"_", "-"}

\* C12: after SchemeIndex::load every key of the scheme map is non-empty,
\* lowercase, made only of [a-z0-9_-], at most 255 chars long, unique, and
\* equal to the name field of the record it maps to.
C12_KeysCanonical ==
    pc = "schemes_loaded" =>
        /\ \A k \in DOMAIN schemes :
              /\ k # <<>>
              /\ to_lowercase(k) = k
              /\ \A i \in DOMAIN k : k[i] \in CanonicalChars
              /\ Len(k) <= MaxNameLen
              /\ schemes[k].name = k
        /\ \A j, k \in DOMAIN schemes : schemes[j].name = schemes[k].name => j = k
        /\ Cardinality({schemes[k].name : k \in DOMAIN schemes}) = Cardinality(DOMAIN schemes)

\* C12's case: a directory with "Monokai.yaml", "İx.yaml" and "..yaml" has
\* been loaded into the keys "monokai" and "ix"
C12_Witness ==
    /\ pc = "schemes_loaded"
    /\ DOMAIN fs.base16.files =
          { <<"M", "o", "n", "o", "k", "a", "i", ".", "y", "a", "m", "l">>,
            <<"U+0130", "x", ".", "y", "a", "m", "l">>,
            <<".", ".", "y", "a", "m", "l">> }
    /\ DOMAIN schemes = { <<"m", "o", "n", "o", "k", "a", "i">>, <<"i", "x">> }
    /\ schemes[<<"i", "x">>].path.file = <<"U+0130", "x", ".", "y", "a", "m", "l">>


(***************************************************************************)
(* C13: the catalogs under requests                                        *)
(***************************************************************************)
\* The scheme catalog (records, name list, colour order) and the template
\* catalog
SchemeCatalog == <<schemes, names_sorted, color_sorted>>
TemplateCatalog == templates

Offending == {k \in DOMAIN schemes : ~IsSome(read_scheme(fs, schemes[k].path))}

\* The slices [0..2], [2..4], [4..6] of hex are taken, and one of them
\* starts or ends inside a char
SlicedInsideChar(hex) ==
    /\ ByteLen(hex) >= HexLen
    /\ \E offset \in {2, 4, 6} :
          \A i \in 1..(Len(hex) + 1) : ByteOffset(hex, i) # offset

\* The scheme files of the tree holding, in one of the 16 slots, a value a
\* slice of which starts or ends inside a char
CutFiles(tree) ==
    { path \in UNION {{[dir |-> sys, file |-> f] : f \in DOMAIN tree[sys].files} :
                         sys \in {s \in Systems : ~IsMissing(tree[s])}} :
        /\ IsSome(read_scheme(tree, path))
        /\ \E k \in Range(color_keys) \cap DOMAIN read_scheme(tree, path).some :
              SlicedInsideChar(trim_start_hash(read_scheme(tree, path).some[k])) }

\* C14: catalog construction never aborts on a per-entry failure (a scheme
\* file that is unreadable, unparseable, missing slots, or holding palette
\* values of any length and any characters, or a missing sub-directory):
\* SchemeIndex::load, compute_color_order included, completes, and the
\* offending entry contributes nothing to the ordering.
C14_LoadNeverAborts ==
    /\ pc # "panicked"
    /\ pc = "schemes_loaded" =>
          \A k \in Offending : \A i \in DOMAIN color_sorted : color_sorted[i] # k

\* C14, the part the code keeps: the load aborts only on a palette value of
\* 6 bytes or more with a char across byte 2, 4 or 6; when it completes, the
\* entries that do not read or parse contribute nothing to the ordering.
C14_LoadAbortsOnlyOnCutValue ==
    /\ pc = "panicked" => CutFiles(fs) # {}
    /\ pc = "schemes_loaded" =>
          /\ \A k \in Offending : \A i \in DOMAIN color_sorted : color_sorted[i] # k
          /\ \A k \in DOMAIN schemes : schemes[k].path \notin CutFiles(fs)

\* C14's case: the load of a directory holding cut.yaml, whose base00 is
\* "aé1234", next to an unparseable and an unreadable file, has panicked
C14_Witness ==
    /\ pc = "panicked"
    /\ DOMAIN fs.base16.files =
          { <<"c", "u", "t", ".", "y", "a", "m", "l">>,
            <<"m", "o", "n", "o", "k", "a", "y", ".", "y", "a", "m", "l">>,
            <<"x", "y", "z", "z", "y", "1", "2", ".", "y", "a", "m", "l">> }
    /\ CutFiles(fs) = {[dir |-> "base16", file |-> <<"c", "u", "t", ".", "y", "a", "m", "l">>]}


(***************************************************************************)
(* The runs of SchemeIndex::load over directories of schemes that all      *)
(* parse, laid out so that tours pass between greyscale and other schemes, *)
(* and meet ties at the start and between candidates.                      *)
(***************************************************************************)
Dusk == <<"#", "4", "0", "4", "0", "4", "0">>
Dim == <<"#", "c", "0", "c", "0", "c", "0">>
Rust == <<"#", "8", "0", "6", "6", "6", "6">>

\* The schemes of the tour runs.  Two palettes differ by 12288 in squared
\* distance for a step of the background or of the foreground, and by 10816
\* between the accents #808080 (greyscale) and #806666.
TourFiles ==
    { [file |-> <<"c", "o", "a", "l", ".", "y", "a", "m", "l">>,
       content |-> Scheme(Uniform(Black, Light, Rust))],
      [file |-> <<"a", "s", "h", ".", "y", "a", "m", "l">>,
       content |-> Scheme(Uniform(Black, Light, Grey))],
      [file |-> <<"d", "u", "s", "k", ".", "y", "a", "m", "l">>,
       content |-> Scheme(Uniform(Dark, Light, Rust))],
      [file |-> <<"f", "o", "g", ".", "y", "a", "m", "l">>,
       content |-> Scheme(Uniform(Dark, Light, Grey))],
      [file |-> <<"b", "a", "y", ".", "y", "a", "m", "l">>,
       content |-> Scheme(Uniform(Dusk, Light, Rust))],
      [file |-> <<"c", "o", "v", "e", ".", "y", "a", "m", "l">>,
       content |-> Scheme(Uniform(Black, Dim, Rust))] }

\* Bound: the number of schemes of a tour run
MaxTourFiles == 5

TourTrees ==
    { [base16 |-> Dir([f \in {e.file : e \in chosen} |->
                          (CHOOSE e \in chosen : e.file = f).content]),
       base24 |-> other,
       templates |-> ServerTemplates] :
        chosen \in SubsetsUpTo(TourFiles, MaxTourFiles),
        other \in {Missing, Dir(<<>>)} }

InitTour ==
    /\ pc = "start"
    /\ fs \in TourTrees
    /\ schemes = EmptyMap /\ names_sorted = <<>> /\ color_sorted = <<>>
    /\ templates = EmptyMap
    /\ request = None /\ response = None
    /\ call = None /\ result = None

NextTour == LoadSchemes

SpecTour == InitTour /\ [][NextTour]_vars

(***************************************************************************)
(* C15: the tour before the partition                                      *)
(***************************************************************************)
\* schemes_with_data after its sort: the names of the schemes that read and
\* parse, and the vector of each
TourNames == SortedSeq(DOMAIN schemes \ Offending)
TourVectors ==
    Tabulated([i \in DOMAIN TourNames |->
        scheme_to_vector(read_scheme(fs, schemes[TourNames[i]].path).some).ok])

\* The tour before the partition, as indices into TourNames
Tour == IF TourNames = <<>> THEN <<>> ELSE greedy_tour(TourVectors)

\* r + g + b of base00
Darkness(v) == v[1] + v[2] + v[3]

\* i is the first of the candidates with the least key
FirstLeast(i, candidates, key) ==
    /\ i \in candidates
    /\ \A c \in candidates : key[i] <= key[c]
    /\ \A c \in candidates : key[c] = key[i] => i <= c

\* C15: the tour before the greyscale partition starts at the scheme with
\* the least base00 r+g+b, and each next scheme is the one not yet visited
\* with the least Euclidean distance, over the 48-component vectors, to the
\* scheme visited before it; ties go to the candidate earliest in the
\* lexicographically sorted list.  The colour order is this tour,
\* partitioned.
C15_GreedyTour ==
    (pc = "schemes_loaded" /\ TourNames # <<>>) =>
        With(TourVectors, LAMBDA v : With(greedy_tour(v), LAMBDA tour :
            LET n == Len(v)
                toured == Tabulated([k \in 1..n |-> TourNames[tour[k]]])
            IN  /\ \A i \in 1..n : Len(v[i]) = 48
                /\ Len(tour) = n
                /\ FirstLeast(tour[1], 1..n, Tabulated([i \in 1..n |-> Darkness(v[i])]))
                /\ \A k \in 2..n :
                      FirstLeast(tour[k], (1..n) \ {tour[j] : j \in 1..(k - 1)},
                                 Tabulated([i \in 1..n |->
                                               color_distance(v[tour[k - 1]], v[i])]))
                /\ color_sorted =
                      SelectSeq(toured, LAMBDA name : ~IsGreyscale(name))
                      \o SelectSeq(toured, LAMBDA name : IsGreyscale(name))))

\* C15's case: a tour of five schemes in which another scheme is as dark as
\* the start, a step had a second candidate as near as the one it took, and
\* a step passed over a candidate nearer to the start than the one it took
C15_Witness ==
    /\ pc = "schemes_loaded"
    /\ Len(TourNames) = 5
    /\ With(TourVectors, LAMBDA v : With(greedy_tour(v), LAMBDA tour :
          /\ \E i \in DOMAIN v : i # tour[1] /\ Darkness(v[i]) = Darkness(v[tour[1]])
          /\ \E k \in 2..Len(tour) : \E c \in {tour[j] : j \in (k + 1)..Len(tour)} :
                color_distance(v[tour[k - 1]], v[c])
                    = color_distance(v[tour[k - 1]], v[tour[k]])
          /\ \E k \in 3..Len(tour) : \E c \in {tour[j] : j \in (k + 1)..Len(tour)} :
                color_distance(v[tour[1]], v[c]) < color_distance(v[tour[1]], v[tour[k]])))


(***************************************************************************)
(* C16                                                                     *)
(***************************************************************************)
\* The number of positions of color_sorted holding name
Occurrences(name) == Cardinality({i \in DOMAIN color_sorted : color_sorted[i] = name})

\* C16: color_order contains every scheme whose file is readable and
\* parses exactly once, and no other name; a scheme whose file is unreadable
\* or unparseable is absent from color_order but remains in the scheme map
\* and in name_list.
C16_ColorOrderMembers ==
    pc = "schemes_loaded" =>
        /\ \A k \in DOMAIN schemes \ Offending : Occurrences(k) = 1
        /\ \A i \in DOMAIN color_sorted : color_sorted[i] \in DOMAIN schemes \ Offending
        /\ Len(color_sorted) = Cardinality(DOMAIN schemes \ Offending)
        /\ \A k \in Offending :
              /\ Occurrences(k) = 0
              /\ k \in DOMAIN schemes
              /\ \E i \in DOMAIN names_sorted : names_sorted[i] = k

\* C16's case: "nord" parses, "monokay" does not and "xyzzy12" does not
\* read; the colour order holds "nord" alone, the name list all three
C16_Witness ==
    /\ pc = "schemes_loaded"
    /\ color_sorted = << <<"n", "o", "r", "d">> >>
    /\ names_sorted = << Monokay, <<"n", "o", "r", "d">>, Xyzzy12 >>
    /\ fs.base16.files[schemes[Monokay].path.file] = Unparseable
    /\ fs.base16.files[schemes[Xyzzy12].path.file] = Unreadable


(***************************************************************************)
(* C17                                                                     *)
(***************************************************************************)
\* The names of the tour before the partition, in the order of the tour
Toured ==
    With(TourNames, LAMBDA names :
        With(Tour, LAMBDA tour : Tabulated([k \in DOMAIN names |-> names[tour[k]]])))

NotGreyscale(name) == ~IsGreyscale(name)

\* C17: the greyscale partition is stable and skips no name: within the
\* group of schemes not greyscale, and within the group of greyscale
\* schemes, the relative order of the tour is kept, and the two groups
\* together hold exactly the names of the tour.
C17_PartitionStable ==
    pc = "schemes_loaded" =>
        With(Toured, LAMBDA toured :
            /\ SelectSeq(color_sorted, NotGreyscale) = SelectSeq(toured, NotGreyscale)
            /\ SelectSeq(color_sorted, IsGreyscale) = SelectSeq(toured, IsGreyscale)
            /\ Len(color_sorted) = Len(toured)
            /\ Range(color_sorted) = Range(toured))

\* C17's case: a tour passing from a greyscale scheme to one that is not and
\* back has been partitioned, and the tour visits two schemes that are not
\* greyscale against the order of their names
C17_Witness ==
    /\ pc = "schemes_loaded"
    /\ With(Toured, LAMBDA toured :
          With(Tabulated([k \in DOMAIN toured |-> IsGreyscale(toured[k])]), LAMBDA grey :
              /\ \E i, j, k \in DOMAIN toured :
                    i < j /\ j < k /\ grey[i] /\ ~grey[j] /\ grey[k]
              /\ \E i, j \in DOMAIN toured :
                    i < j /\ ~grey[i] /\ ~grey[j] /\ StrLess(toured[j], toured[i])
              /\ color_sorted # toured))


(***************************************************************************)
(* C18                                                                     *)
(***************************************************************************)
\* C18: names_sorted is strictly ascending in lexicographic order, and its
\* elements are exactly the keys of the scheme map.
C18_NamesSorted ==
    pc = "schemes_loaded" =>
        /\ \A i, j \in DOMAIN names_sorted :
              i < j => StrLess(names_sorted[i], names_sorted[j])
        /\ {names_sorted[i] : i \in DOMAIN names_sorted} = DOMAIN schemes
        /\ Len(names_sorted) = Cardinality(DOMAIN schemes)

\* C18's case: the names of three schemes, two of which differ in their
\* last char only and one of which has no file that reads, are sorted
C18_Witness ==
    /\ pc = "schemes_loaded"
    /\ names_sorted = <<Monokai, Monokay, Xyzzy12>>
    /\ DOMAIN schemes = {Xyzzy12, Monokay, Monokai}
    /\ schemes[Monokai].path.file = <<"M", "o", "n", "o", "k", "a", "i", ".", "y", "a", "m", "l">>


(***************************************************************************)
(* C19                                                                     *)
(***************************************************************************)
\* The name a file of a scheme directory is indexed under
CanonicalName(file) == sanitize_name(to_lowercase(file_stem(file).some))

\* The .yaml files of directory sys indexed under name
FilesNamed(sys, name) ==
    IF IsMissing(fs[sys]) THEN {}
    ELSE {f \in DOMAIN fs[sys].files :
             extension(f) = Some(YamlExt) /\ CanonicalName(f) = name}

\* C19: data/schemes/base16 is scanned before data/schemes/base24, so the
\* last directory wins: when .yaml files of both directories have the same
\* canonical name, the record of that name has system "base24" and the path
\* of the base24 file.
C19_LastDirectoryWins ==
    pc = "schemes_loaded" =>
        \A name \in DOMAIN schemes :
            (FilesNamed("base16", name) # {} /\ FilesNamed("base24", name) # {}) =>
                /\ schemes[name].system = "base24"
                /\ schemes[name].path.dir = "base24"
                /\ schemes[name].path.file \in FilesNamed("base24", name)

\* C19's case: base16 holds monokai.yaml, base24 holds Monokai.yaml, and the
\* record of "monokai" is that of the base24 file
C19_Witness ==
    /\ pc = "schemes_loaded"
    /\ FilesNamed("base16", Monokai) = {<<"m", "o", "n", "o", "k", "a", "i", ".", "y", "a", "m", "l">>}
    /\ FilesNamed("base24", Monokai) = {<<"M", "o", "n", "o", "k", "a", "i", ".", "y", "a", "m", "l">>}
    /\ schemes[Monokai] =
          [name |-> Monokai,
           path |-> [dir |-> "base24",
                     file |-> <<"M", "o", "n", "o", "k", "a", "i", ".", "y", "a", "m", "l">>],
           system |-> "base24"]


(***************************************************************************)
(* C20                                                                     *)
(***************************************************************************)
\* k is a canonical name: lowercase and made only of [A-Za-z0-9_-]
IsCanonical(k) == to_lowercase(k) = k /\ \A i \in DOMAIN k : k[i] \in Whitelist

\* The record a request for the template named k is answered from
Resolved(k) == template_find(templates, sanitize_name(k))

\* C20: every key of the template index is a canonical name (lowercase,
\* only [A-Za-z0-9_-]), so every indexed template is resolvable:
\* TemplateIndex::find(sanitize_name(k)) returns the record of key k.
C20_KeysResolvable ==
    pc = "serving" =>
        \A k \in DOMAIN templates :
            /\ IsCanonical(k)
            /\ Resolved(k) = Some(templates[k])

\* C20, the part the code keeps: the keys are sanitized repository names
\* with, for some, "-" and a template name as the manifest spells it, and
\* an indexed template is resolvable exactly when its key is canonical.
C20_ResolvableIffCanonical ==
    pc = "serving" =>
        \A k \in DOMAIN templates :
            /\ templates[k].name = k
            /\ Resolved(k) = Some(templates[k]) <=> IsCanonical(k)
            /\ \/ k = short_repo(templates[k].repo)
               \/ k = short_repo(templates[k].repo) \o <<"-">> \o templates[k].path.file

\* C20's case: "base16-Vim", "base16-vim" and "base16-bar" have been
\* indexed; the key "Vim" resolves to the record of "vim", and the key
\* "bar-my.tpl" to none
C20_Witness ==
    /\ pc = "serving"
    /\ DOMAIN templates = { <<"V", "i", "m">>, Vim, <<"b", "a", "r">>,
                            <<"b", "a", "r", "-", "m", "y", ".", "t", "p", "l">> }
    /\ Resolved(<<"V", "i", "m">>) = Some(templates[Vim])
    /\ templates[Vim] # templates[<<"V", "i", "m">>]
    /\ Resolved(<<"b", "a", "r", "-", "m", "y", ".", "t", "p", "l">>) = None
    /\ Resolved(<<"b", "a", "r">>) = Some(templates[<<"b", "a", "r">>])


(***************************************************************************)
(* The runs of the two closures compute_color_order applies to the palette *)
(* of each scheme: scheme_to_vector and is_grey_scheme.                    *)
(***************************************************************************)
Fifth == <<"#", "0", "a", "0", "8", "0", "8">>
Near == <<"#", "6", "3", "5", "0", "5", "0">>

\* Values of one slot: six hex digits, too short, too long, with chars that
\* are no hex digits in one or in every component, with a sign, and with a
\* two-byte char at a slice offset and across one
SlotValues ==
    MalformedHex \cup
    { Red, Blue, Black, Pale,
      <<"g", "g", "1", "2", "3", "4">>, <<"1", "2", "g", "g", "3", "4">>,
      <<"#", "1", "2", "3", "4", "g", "g">>, <<"z", "z", "z", "z", "z", "z">>,
      <<"f", "9", "2", "6", "7">>, <<"#", "#", "f", "9", "2", "6", "7", "2">>,
      <<"U+00E9", "1", "2", "3", "4", "5">>, <<"a", "U+00E9", "1", "2", "3", "4">>,
      <<"1", "2", "3", "4", "5", "U+00E9">> }

\* The spellings of slot keys a palette of the runs may use
SlotSpellings == {"base00", "base0A", "base0a", "BASE0A", "base0F", "base0f"}

\* The accent colours of the mixed palettes: saturation 0 (#808080, and
\* #000000 whose max is 0), well above 0.2 (#f92672), just above (#806666),
\* just below (#635050), and exactly one fifth (#ffcccc, #0a0808)
AccentColours == {Grey, Black, Red, Rust, Near, Pale, Fifth}

\* The palette whose first count accents are first and whose others are rest
Mixed(first, rest, count) ==
    [k \in Range(accent_keys) |->
        IF IndexOf(k, accent_keys) <= count THEN first ELSE rest]

\* The palette with its accents base0A..base0F stored under lowercase keys
LowerAccents(palette) ==
    [k \in {"base08", "base09", "base0a", "base0b", "base0c", "base0d", "base0e", "base0f"} |->
        palette[accent_keys[IndexOf(k, <<"base08", "base09", "base0a", "base0b",
                                       "base0c", "base0d", "base0e", "base0f">>)]]]

ClassifyPalettes ==
    {[k \in {key} |-> v] : key \in SlotSpellings, v \in SlotValues}
    \cup {Mixed(x, y, n) : x \in AccentColours, y \in AccentColours, n \in 0..Len(accent_keys)}
    \cup {LowerAccents(Mixed(x, Red, n)) : x \in {Grey, Pale}, n \in 0..Len(accent_keys)}
    \cup {Uniform(Dark, Light, Red), Uniform(Black, White, Grey), <<>>}

InitClassify ==
    /\ pc = "call"
    /\ call \in {[fn |-> "classify", arg |-> p] : p \in ClassifyPalettes}
    /\ result = None
    /\ NoCatalog

\* vectors[i] and the partition predicate for one entry of schemes_with_data
CallClassify ==
    /\ pc = "call"
    /\ call.fn = "classify"
    /\ result' = [vector |-> scheme_to_vector(call.arg),
                  grey |-> is_grey_scheme(call.arg)]
    /\ pc' = "done"
    /\ UNCHANGED <<call, CatalogVars>>

NextClassify == CallClassify

SpecClassify == InitClassify /\ [][NextClassify]_vars


(***************************************************************************)
(* C21                                                                     *)
(***************************************************************************)
\* The slots of the palette of the run, as indices into color_keys, and the
\* value of each without its leading '#'s
StoredSlots == {i \in DOMAIN color_keys : color_keys[i] \in DOMAIN call.arg}
StoredHex(i) == trim_start_hash(call.arg[color_keys[i]])

\* hex is malformed: fewer than 6 chars, or a char that is no hex digit
IsMalformedHex(hex) == Len(hex) < HexLen \/ \E j \in DOMAIN hex : hex[j] \notin HexDigits

\* The three components of slot i in the vector of the run
Triple(i) == SubSeq(result.vector.ok, 3 * i - 2, 3 * i)

\* The value of the two chars a component is read from: that of two hex
\* digits, that of a hex digit after a '+', and 0 for any other pair
LenientPair(p) ==
    IF p[1] \in HexDigits /\ p[2] \in HexDigits THEN PairValue(p)
    ELSE IF p[1] = "+" /\ p[2] \in HexDigits THEN Nibble(p[2])
    ELSE 0

\* C21: the hex-to-RGB conversion that builds the colour vectors is
\* lenient: every malformed hex value (fewer than 6 characters, or holding
\* a character that is not a hex digit) yields the triple (0, 0, 0) rather
\* than failing.
C21_MalformedIsBlack ==
    pc = "done" =>
        /\ ~IsPanic(result.vector)
        /\ \A i \in StoredSlots :
              IsMalformedHex(StoredHex(i)) => Triple(i) = <<0, 0, 0>>

\* C21, the part the code keeps: the conversion fails only on a value of 6
\* bytes or more with a char across byte 2, 4 or 6; a value shorter than 6
\* bytes yields (0, 0, 0); and a value starting with six one-byte chars
\* yields, component by component, the value of its two chars or 0.
C21_LenientByComponent ==
    pc = "done" =>
        /\ IsPanic(result.vector) <=> \E i \in StoredSlots : SlicedInsideChar(StoredHex(i))
        /\ ~IsPanic(result.vector) =>
              \A i \in StoredSlots :
                  /\ ByteLen(StoredHex(i)) < HexLen => Triple(i) = <<0, 0, 0>>
                  /\ (Len(StoredHex(i)) >= HexLen
                        /\ \A j \in 1..HexLen : len_utf8[StoredHex(i)[j]] = 1) =>
                          Triple(i) = << LenientPair(SubSeq(StoredHex(i), 1, 2)),
                                         LenientPair(SubSeq(StoredHex(i), 3, 4)),
                                         LenientPair(SubSeq(StoredHex(i), 5, 6)) >>

\* C21's case: the vector of a palette whose base00 is "gg1234" has been
\* built, with (0, 18, 52) for the slot
C21_Witness ==
    /\ pc = "done"
    /\ call.arg = [k \in {"base00"} |-> <<"g", "g", "1", "2", "3", "4">>]
    /\ IsMalformedHex(StoredHex(1))
    /\ ~IsPanic(result.vector)
    /\ Triple(1) = <<0, 18, 52>>


(***************************************************************************)
(* C22                                                                     *)
(***************************************************************************)
\* The canonical spelling of a slot key: "base0" and an uppercase hex digit
CanonicalKey(k) ==
    CASE k \in {"base0a", "BASE0A"} -> "base0A"
      [] k = "base0b" -> "base0B"
      [] k = "base0c" -> "base0C"
      [] k = "base0d" -> "base0D"
      [] k = "base0e" -> "base0E"
      [] k = "base0f" -> "base0F"
      [] OTHER -> k

\* The palette with every key in its canonical spelling
Normalized(palette) ==
    [c \in {CanonicalKey(k) : k \in DOMAIN palette} |->
        palette[CHOOSE k \in DOMAIN palette : CanonicalKey(k) = c]]

\* The palette without the keys that are not spelled as color_keys spells
\* them
ExactKeys(palette) == [k \in DOMAIN palette \cap Range(color_keys) |-> palette[k]]

\* C22: palette keys are case-normalized: the 48-component vector and the
\* greyscale classification of a scheme do not depend on the letter case of
\* its palette keys (a palette storing a slot as "base0a" gives the same
\* vector and classification as one storing the same colour as "base0A"),
\* and a slot absent from the palette contributes #000000 to the vector.
C22_KeysCaseNormalized ==
    pc = "done" =>
        /\ result.vector = scheme_to_vector(Normalized(call.arg))
        /\ result.grey = is_grey_scheme(Normalized(call.arg))
        /\ ~IsPanic(result.vector) =>
              \A i \in DOMAIN color_keys :
                  color_keys[i] \notin DOMAIN Normalized(call.arg) => Triple(i) = <<0, 0, 0>>

\* C22, the part the code keeps: a key counts only when spelled exactly as
\* in color_keys, any other spelling being as good as absent; a slot absent
\* under that spelling contributes (0, 0, 0) to the vector, of 48
\* components, and nothing to the classification.
C22_KeysMatchedExactly ==
    pc = "done" =>
        /\ result.vector = scheme_to_vector(ExactKeys(call.arg))
        /\ result.grey = is_grey_scheme(ExactKeys(call.arg))
        /\ ~IsPanic(result.vector) =>
              /\ Len(result.vector.ok) = 48
              /\ \A i \in DOMAIN color_keys :
                    color_keys[i] \notin DOMAIN call.arg => Triple(i) = <<0, 0, 0>>
        /\ (\A k \in Range(accent_keys) : k \notin DOMAIN call.arg) =>
              result.grey = Ok(FALSE)

\* C22's case: a palette with eight accents #808080, six of them stored as
\* "base0a" .. "base0f", has been classified not greyscale, with zeros for
\* base0A in its vector; with canonical keys it is greyscale
C22_Witness ==
    /\ pc = "done"
    /\ call.arg = LowerAccents(Mixed(Grey, Red, 8))
    /\ result.grey = Ok(FALSE)
    /\ Triple(11) = <<0, 0, 0>>
    /\ is_grey_scheme(Normalized(call.arg)) = Ok(TRUE)
    /\ SubSeq(scheme_to_vector(Normalized(call.arg)).ok, 31, 33) = <<128, 128, 128>>


(***************************************************************************)
(* C23                                                                     *)
(***************************************************************************)
\* The accent slots of the palette of the run that hold six hex digits, as
\* indices into color_keys
ColouredAccents ==
    {i \in StoredSlots : color_keys[i] \in Range(accent_keys)
                            /\ IsSixHexDigits(StoredHex(i))}

\* r, g, b of a string of six hex digits
Components(hex) ==
    <<PairValue(SubSeq(hex, 1, 2)), PairValue(SubSeq(hex, 3, 4)), PairValue(SubSeq(hex, 5, 6))>>

Largest(c) == Max(Max(c[1], c[2]), c[3])
Smallest(c) == Min(Min(c[1], c[2]), c[3])

\* (max - min) / max < 0.2, or max = 0, for integer components
SaturationBelowFifth(c) ==
    Largest(c) = 0 \/ 5 * (Largest(c) - Smallest(c)) < Largest(c)

\* (max - min) / max = 0.2 exactly
SaturationIsFifth(c) ==
    Largest(c) # 0 /\ 5 * (Largest(c) - Smallest(c)) = Largest(c)

\* Every accent the palette stores under its exact key is six hex digits
AccentsWellFormed ==
    \A i \in StoredSlots :
        color_keys[i] \in Range(accent_keys) => IsSixHexDigits(StoredHex(i))

\* C23: a scheme is classified greyscale exactly when at least 5 of its 8
\* accent slots base08..base0F have HSV saturation below 0.2, the
\* saturation being (max - min) / max of r, g, b and 0 when max is 0: for
\* the integer components, max = 0 or 5 * (max - min) < max.
C23_GreyIffFiveBelowFifth ==
    (pc = "done" /\ AccentsWellFormed) =>
        /\ ~IsPanic(result.grey)
        /\ result.grey.ok <=>
              Cardinality({i \in ColouredAccents :
                              SaturationBelowFifth(Components(StoredHex(i)))}) >= GreyCount

\* C23, the part the code keeps: the classification counts the accents
\* whose saturation is below 0.2 and, of those whose saturation is exactly
\* 0.2, the ones for which the quotient of the f64 values max/255 and
\* min/255 is rounded below the f64 value of 0.2, such as (255, 204) but
\* not (10, 8).
C23_GreyIffFiveRoundedBelowFifth ==
    (pc = "done" /\ AccentsWellFormed) =>
        /\ ~IsPanic(result.grey)
        /\ result.grey.ok <=>
              Cardinality({i \in ColouredAccents :
                  \/ SaturationBelowFifth(Components(StoredHex(i)))
                  \/ /\ SaturationIsFifth(Components(StoredHex(i)))
                     /\ <<Largest(Components(StoredHex(i))),
                          Smallest(Components(StoredHex(i)))>> \in SaturationRoundsBelow})
                >= GreyCount

\* C23's case: a palette with five accents #ffcccc, of saturation exactly
\* 0.2, and three accents #f92672 has been classified greyscale
C23_Witness ==
    /\ pc = "done"
    /\ call.arg = Mixed(Pale, Red, 5)
    /\ result.grey = Ok(TRUE)
    /\ \A i \in ColouredAccents : ~SaturationBelowFifth(Components(StoredHex(i)))
    /\ Cardinality({i \in ColouredAccents : SaturationIsFifth(Components(StoredHex(i)))}) = 5


(***************************************************************************)
(* C24: following a redirect                                               *)
(***************************************************************************)
\* The step is the client following the redirect it was answered with
Follows == pc = "responding" /\ pc' = "responding"

Asked == DOMAIN schemes \cup {sanitize_name(raw) : raw \in RawNames}

\* The names visited from the last of walked by following next, until there
\* is no next or more names are walked than the list holds
RECURSIVE FollowNext(_, _)
FollowNext(list, walked) ==
    LET next == get_neighbors(list, walked[Len(walked)])[2]
    IN  IF ~IsSome(next) \/ Len(walked) > Len(list) THEN walked
        ELSE FollowNext(list, Append(walked, next.some))

\* C25: next and prev are consistent.  In either ordering get_neighbors(a)
\* has next = b if and only if get_neighbors(b) has prev = a; following
\* next from the first name visits every name of the ordering exactly once
\* and ends at the last; and get_neighbors of a name that is not in the
\* chosen ordering, a scheme of the catalog left out of color_sorted
\* included, is (none, none).  The page of a scheme carries neighbours that
\* name it back.
C25_NavigationConsistent ==
    /\ pc \in {"schemes_loaded", "serving"} =>
          \A list \in {names_sorted, color_sorted} :
              /\ \A a, b \in Asked :
                    get_neighbors(list, a)[2] = Some(b) <=> get_neighbors(list, b)[1] = Some(a)
              /\ list # <<>> => FollowNext(list, <<list[1]>>) = list
              /\ \A name \in Asked :
                    (\A i \in DOMAIN list : list[i] # name) =>
                        get_neighbors(list, name) = <<None, None>>
    /\ (pc = "responding" /\ "next" \in DOMAIN response) =>
          LET list == IF request.by_color THEN color_sorted ELSE names_sorted
          IN  /\ IsSome(response.next) =>
                    get_neighbors(list, response.next.some)[1] = Some(response.x_scheme_name)
              /\ IsSome(response.prev) =>
                    get_neighbors(list, response.prev.some)[2] = Some(response.x_scheme_name)

\* C25's case: the first page of a colour order of two names has been
\* served with its next, whose prev is the page; a third scheme of the
\* catalog is left out of the colour order and has no neighbours in it
C25_Witness ==
    /\ pc = "responding"
    /\ "next" \in DOMAIN response
    /\ request.by_color
    /\ Len(color_sorted) = 2 /\ Len(names_sorted) = 3
    /\ response.x_scheme_name = color_sorted[1]
    /\ response.next = Some(color_sorted[2])
    /\ get_neighbors(color_sorted, color_sorted[2]) = <<Some(color_sorted[1]), None>>
    /\ FollowNext(names_sorted, <<names_sorted[1]>>) = names_sorted
    /\ \E name \in DOMAIN schemes :
          /\ \A i \in DOMAIN color_sorted : color_sorted[i] # name
          /\ get_neighbors(color_sorted, name) = <<None, None>>
          /\ get_neighbors(names_sorted, name) # <<None, None>>

=============================================================================
